---------------------------- MODULE Spec2Model ----------------------------
(***************************************************************************)
(* A model of the extraction-and-evaluation pipeline of the EDGAR 10-K     *)
(* scripts (src/extract_10k_data.py).                                      *)
(*                                                                         *)
(* Python values are modelled as tagged records, so that a None, a bool, a *)
(* str and a float can be told apart and compared, as in Python:           *)
(*   None                     [t |-> "NoneType"]                           *)
(*   True / False             [t |-> "bool", v |-> TRUE / FALSE]           *)
(*   'abc'                    [t |-> "str", v |-> <<"a","b","c">>]         *)
(*   an int                   [t |-> "int", v |-> n]                       *)
(*   a finite float m*10^-e   [t |-> "float", k |-> "fin", m |-> m, e |-> e]*)
(*   a float quotient n/d     [t |-> "float", k |-> "ratio", n |-> n, d |-> d]*)
(*   float('inf'), -inf       [t |-> "float", k |-> "inf", neg |-> FALSE/TRUE]*)
(*   float('nan')             [t |-> "float", k |-> "nan"]                 *)
(* Finite floats are exact decimals: binary rounding is not modelled.      *)
(***************************************************************************)
EXTENDS Integers, Sequences, FiniteSets, TLC

VARIABLES
    evExtracted,    \* Evaluator.evaluate: the FinancialMetrics argument
    evGroundTruth,  \* Evaluator.ground_truth: ticker -> row of cells
    evTolerance,    \* Evaluator.evaluate: the tolerance argument
    evResult,       \* what evaluate returned (or raised); "pending" before the call
    vnInput,        \* FinancialMetrics.validate_numeric: the argument v
    vnResult,       \* what validate_numeric returned (or raised); "pending" before
    ctText,         \* BaselineExtractor._chunk_text: the argument text
    ctChunkSize,    \* BaselineExtractor._chunk_text: the argument chunk_size
    ctResult,       \* the list of chunks returned; "pending" before the call
    htDoc,          \* extract_text_from_html: the parsed document (soup)
    htTextParts,    \* extract_text_from_html: text_parts before the fallback test
    htResult,       \* the text returned; "pending" before the call
    exCls,          \* extract: the class of the extractor the caller holds
    exParser,       \* RefinedExtractor.parser is set (LlamaParse available)
    exTicker,       \* extract: the argument ticker
    exPc,           \* extract: where the call is
    exQueries,      \* the number of query_engine.query calls issued so far
    exResponse,     \* what query_engine.query returned (or raised)
    exResult,       \* what extract returned (or raised); "pending" before
    mnDriver,       \* main: the script that runs
    mnArgs,         \* main: the arguments and the environment
    mnGroundTruth,  \* the ticker cells of the ground-truth file; None without file
    mnFound,        \* the documents found on disk (or listed), in the order met
    mnPc,           \* main: where the run is
    mnDocs,         \* the documents the loop iterates over
    mnIndex,        \* the loop's position in mnDocs
    mnTodo,         \* the strategies still to run for the current document
    mnResults,      \* results: key -> strategy -> entry
    mnAttempts,     \* the extraction attempts made so far, in order
    mnConstructed,  \* the number of extractor constructor calls
    mnWrites,       \* the number of times the results JSON was written
    mnExit,         \* the exit status; None while running
    mnEvaluation,   \* evaluation_results: key -> strategy -> what evaluate returned
    rtRecord,       \* the FinancialMetrics record an extractor returned
    rtPc,           \* the round trip: where it is
    rtDump,         \* record.model_dump(), or what json.load gave back
    rtFile,         \* the JSON text of each field in the output file
    rtRebuilt,      \* FinancialMetrics rebuilt from the dump (or the exception raised)
    fsDocuments,    \* RefinedExtractor.extract: the documents the parser returned (their texts)
    fsFiltered,     \* what _filter_relevant_sections returned; "pending" before the call
    fsIndexed,      \* the documents given to VectorStoreIndex.from_documents; "pending" before
    cmPc,           \* compare_models.main: where the run is
    cmIndex,        \* the position of the loop in models_to_test
    cmElapsed,      \* seconds since subprocess.run started the current extraction
    cmRuns,         \* what each run_extraction call met, in order
    cmResults,      \* results: the models whose extraction succeeded, in insertion order
    cmCompared,     \* the models given to compare_results; None when none was
    dlPc,           \* download_10k_pdfs.main: where the run is
    dlTickerIndex,  \* ticker_index
    dlPdfsCreated,  \* pdfs_created
    dlFilingDirs,   \* the filing directories the for loop has still to look at
    dlAttempts,     \* the values of ticker_index at the calls of dl.get, in order
    ftPc,           \* extract_features_from_html.main: where the script is
    ftExists,       \* ground_truth_complete.csv exists
    ftCsv,          \* the rows of the file before the run
    ftFrame,        \* df, the rows in memory
    ftIndex,        \* the row the loop is at
    ftUpdated,      \* updated_count
    ftWritten,      \* the cells assigned with df.at
    ftSaved         \* what to_csv wrote

evalVars == <<evExtracted, evGroundTruth, evTolerance, evResult>>
normVars == <<vnInput, vnResult>>
chunkVars == <<ctText, ctChunkSize, ctResult>>
htmlVars == <<htDoc, htTextParts, htResult>>
extractVars == <<exCls, exParser, exTicker, exPc, exQueries, exResponse, exResult>>
mainVars == <<mnDriver, mnArgs, mnGroundTruth, mnFound, mnPc, mnDocs, mnIndex, mnTodo,
              mnResults, mnAttempts, mnConstructed, mnWrites, mnExit, mnEvaluation>>
roundVars == <<rtRecord, rtPc, rtDump, rtFile, rtRebuilt>>
filterVars == <<fsDocuments, fsFiltered, fsIndexed>>
compareVars == <<cmPc, cmIndex, cmElapsed, cmRuns, cmResults, cmCompared>>
downloadVars == <<dlPc, dlTickerIndex, dlPdfsCreated, dlFilingDirs, dlAttempts>>
featureVars == <<ftPc, ftExists, ftCsv, ftFrame, ftIndex, ftUpdated, ftWritten, ftSaved>>
vars == <<evalVars, normVars, chunkVars, htmlVars, extractVars, mainVars, roundVars, filterVars, compareVars, downloadVars, featureVars>>

----------------------------------------------------------------------------
(* Python values *)

None == [t |-> "NoneType"]
Bool(b) == [t |-> "bool", v |-> b]
Str(s) == [t |-> "str", v |-> s]
PyInt(n) == [t |-> "int", v |-> n]
NaN == [t |-> "float", k |-> "nan"]
Inf(neg) == [t |-> "float", k |-> "inf", neg |-> neg]
Pending == [t |-> "pending"]
Raised(exc) == [t |-> "raised", exc |-> exc]

IsRaised(x) == x.t = "raised"
IsFinite(x) == x.t = "float" /\ x.k = "fin"

AbsInt(n) == IF n < 0 THEN -n ELSE n
MaxInt(a, b) == IF a >= b THEN a ELSE b

RECURSIVE Pow10(_)
Pow10(n) == IF n = 0 THEN 1 ELSE 10 * Pow10(n - 1)

RECURSIVE FinNorm(_, _)
\* the float m * 10^-e, in its canonical form (no trailing fractional zero)
FinNorm(m, e) ==
    IF e > 0 /\ m % 10 = 0 THEN FinNorm(m \div 10, e - 1)
    ELSE [t |-> "float", k |-> "fin", m |-> m, e |-> e]

Fin(m, e) == FinNorm(m, e)

\* a float quotient num/den of two non-negative scaled integers, den > 0
Ratio(n, d) == [t |-> "float", k |-> "ratio", n |-> n, d |-> d]

----------------------------------------------------------------------------
(* Python str methods, on sequences of one-character strings *)

IsSpace(c) == c \in {" ", "\t", "\n"}

RECURSIVE Replace(_, _, _)
\* s.replace(old, new) for a one-character old; new is a (possibly empty) string
Replace(s, old, new) ==
    IF s = <<>> THEN <<>>
    ELSE (IF Head(s) = old THEN new ELSE <<Head(s)>>) \o Replace(Tail(s), old, new)

RECURSIVE LStrip(_)
LStrip(s) == IF s # <<>> /\ IsSpace(Head(s)) THEN LStrip(Tail(s)) ELSE s

RECURSIVE RStrip(_)
RStrip(s) ==
    IF s # <<>> /\ IsSpace(s[Len(s)]) THEN RStrip(SubSeq(s, 1, Len(s) - 1)) ELSE s

\* s.strip()
Strip(s) == RStrip(LStrip(s))

RECURSIVE Zeros(_)
Zeros(n) == IF n <= 0 THEN <<>> ELSE <<"0">> \o Zeros(n - 1)

\* s.zfill(width): zeros go after a leading sign
ZFill(s, width) ==
    IF Len(s) >= width THEN s
    ELSE IF s # <<>> /\ Head(s) \in {"+", "-"}
         THEN <<Head(s)>> \o Zeros(width - Len(s)) \o Tail(s)
         ELSE Zeros(width - Len(s)) \o s

Digit(d) == <<"0", "1", "2", "3", "4", "5", "6", "7", "8", "9">>[d + 1]

RECURSIVE NatToStr(_)
NatToStr(n) == IF n < 10 THEN <<Digit(n)>> ELSE NatToStr(n \div 10) \o <<Digit(n % 10)>>

IntToStr(n) == IF n < 0 THEN <<"-">> \o NatToStr(-n) ELSE NatToStr(n)

\* repr of a finite float m*10^-e: at least one fractional digit
FloatToStr(x) ==
    LET a == AbsInt(x.m)
        whole == a \div Pow10(x.e)
        frac == a % Pow10(x.e)
        fracStr == IF x.e = 0 THEN <<"0">>
                   ELSE Zeros(x.e - Len(NatToStr(frac))) \o NatToStr(frac)
    IN (IF x.m < 0 THEN <<"-">> ELSE <<>>) \o NatToStr(whole) \o <<".">> \o fracStr

\* str(x), for the values a ground-truth cell or a cik can hold
PyStr(x) ==
    CASE x.t = "str" -> x.v
      [] x.t = "int" -> IntToStr(x.v)
      [] x.t = "float" /\ x.k = "fin" -> FloatToStr(x)
      [] x.t = "float" /\ x.k = "nan" -> <<"n", "a", "n">>
      [] x.t = "NoneType" -> <<"N", "o", "n", "e">>
      [] x.t = "list" -> <<"[", "]">>

----------------------------------------------------------------------------
(* Python float arithmetic, exact on decimals *)

\* float(x) of a ground-truth cell (an int64 or a float64 column value)
ToFloat(x) == IF x.t = "int" THEN Fin(x.v, 0) ELSE x

IsZero(x) == IsFinite(x) /\ x.m = 0

\* abs(a - b), b finite
AbsSub(a, b) ==
    CASE a.k = "nan" -> NaN
      [] a.k = "inf" -> Inf(FALSE)
      [] a.k = "fin" ->
            LET E == MaxInt(a.e, b.e)
            IN Fin(AbsInt(a.m * Pow10(E - a.e) - b.m * Pow10(E - b.e)), E)

\* abs(x), x finite
AbsF(x) == Fin(AbsInt(x.m), x.e)

\* x / y for floats, x >= 0 or nan, y finite and >= 0: Python raises on y == 0
Div(x, y) ==
    IF IsZero(y) THEN Raised("ZeroDivisionError")
    ELSE CASE x.k = "nan" -> NaN
           [] x.k = "inf" -> Inf(FALSE)
           [] x.k = "fin" ->
                LET E == MaxInt(x.e, y.e)
                IN Ratio(x.m * Pow10(E - x.e), y.m * Pow10(E - y.e))

\* numerator and (positive) denominator of a finite float or a quotient
Num(x) == IF x.k = "ratio" THEN x.n ELSE x.m
Den(x) == IF x.k = "ratio" THEN x.d ELSE Pow10(x.e)

\* x <= y, y finite: every comparison with nan is False
FloatLe(x, y) ==
    CASE x.k = "nan" -> FALSE
      [] x.k = "inf" -> x.neg
      [] OTHER -> Num(x) * Den(y) <= Num(y) * Den(x)

\* x > y, y finite
FloatGt(x, y) ==
    CASE x.k = "nan" -> FALSE
      [] x.k = "inf" -> ~x.neg
      [] OTHER -> Num(x) * Den(y) > Num(y) * Den(x)

----------------------------------------------------------------------------
(* Evaluator *)

Metrics == <<"cik", "total_revenue", "net_income">>

CikWidth == 10

DefaultTolerance == Fin(1, 2)
NoneThreshold == Fin(1, 2)
MinorThreshold == Fin(10, 2)
MajorThreshold == Fin(50, 2)

\* d.get(key)
Get(d, key) == IF key \in DOMAIN d THEN d[key] ELSE None

\* pd.isna(gt_val) or gt_val is None
IsNa(x) == x.t = "NoneType" \/ (x.t = "float" /\ x.k = "nan")

\* Evaluator._classify_error
ClassifyError(extracted, ground_truth, relative_error) ==
    IF FloatLe(relative_error, NoneThreshold)
    THEN Str("None (within tolerance)")
    ELSE IF FloatLe(relative_error, MinorThreshold)
    THEN Str("Minor (rounding/formatting)")
    ELSE LET q == Div(AbsSub(extracted, ground_truth), AbsF(ground_truth))
         IN IF IsRaised(q) THEN q
            ELSE IF FloatGt(q, MajorThreshold)
            THEN Str("Major (wrong value/column)")
            ELSE Str("Moderate (partial match)")

\* the CIK with its separators removed and no padding
CikNormalNoPad(x) == Strip(Replace(Replace(PyStr(x), "-", <<>>), " ", <<>>))

\* the normal form of a CIK that evaluate compares
CikNormal(x) == ZFill(Strip(Replace(Replace(PyStr(x), "-", <<>>), " ", <<>>)), CikWidth)

\* diff / abs(float(gt_val)) if float(gt_val) != 0 else float('inf')
RelativeError(diff, gt) == IF ~IsZero(gt) THEN Div(diff, AbsF(gt)) ELSE Inf(FALSE)

\* relative_error < tolerance: the boundary excluded
WithinToleranceStrict(relative_error, tolerance) ==
    FloatLe(relative_error, tolerance)
        /\ ~(relative_error.k = "ratio"
             /\ Num(relative_error) * Den(tolerance) = Num(tolerance) * Den(relative_error))

\* relative_error <= tolerance
WithinTolerance(relative_error, tolerance) == FloatLe(relative_error, tolerance)

\* the entry of a metric without ground truth
NoGroundTruthEntry(extracted_val) ==
    [extracted |-> extracted_val, ground_truth |-> None, match |-> None,
     error |-> Str("No ground truth available")]

\* an unextracted metric recorded like one without ground truth
NotExtractedEntryExcluded(metric, gt_val) ==
    [extracted |-> None, ground_truth |-> None, match |-> None,
     error |-> Str("Value not extracted")]

\* the entry of a metric with ground truth that was not extracted
NotExtractedEntry(metric, gt_val) ==
    [extracted |-> None,
     ground_truth |-> IF metric = "cik" THEN Str(PyStr(gt_val)) ELSE ToFloat(gt_val),
     match |-> Bool(FALSE), error |-> Str("Value not extracted")]

\* the entry of metric cik, both values present
CikEntry(extracted_val, gt_val) ==
    LET match == CikNormal(extracted_val) = CikNormal(gt_val)
    IN [extracted |-> extracted_val, ground_truth |-> Str(PyStr(gt_val)),
        match |-> Bool(match),
        error_type |-> IF match THEN Str("None (exact match)")
                       ELSE Str("Major (wrong value)")]

\* the entry of a numeric metric, both values present, or the exception raised
NumericEntry(extracted_val, gt_val, tolerance) ==
    LET gt == ToFloat(gt_val)
        diff == AbsSub(extracted_val, gt)
        relative_error == RelativeError(diff, gt)
        error_type == ClassifyError(extracted_val, gt, relative_error)
    IN IF IsRaised(error_type) THEN error_type
       ELSE [extracted |-> extracted_val, ground_truth |-> gt,
             match |-> Bool(WithinTolerance(relative_error, tolerance)),
             absolute_error |-> diff, relative_error |-> relative_error,
             error_type |-> error_type]

\* one iteration of evaluate's loop: the entry of results['metrics'], or the
\* exception the iteration raises
EvalMetric(metric, extracted_val, gt_val, tolerance) ==
    IF IsNa(gt_val) THEN NoGroundTruthEntry(extracted_val)
    ELSE IF extracted_val = None THEN NotExtractedEntry(metric, gt_val)
    ELSE IF metric = "cik" THEN CikEntry(extracted_val, gt_val)
    ELSE NumericEntry(extracted_val, gt_val, tolerance)

MetricNames == {Metrics[i] : i \in DOMAIN Metrics}

\* every entry whose match is not False counted as a match
CountMatchesNotFalse(metrics) ==
    Cardinality({m \in DOMAIN metrics : Get(metrics[m], "match") # Bool(FALSE)})

\* sum(1 for m in results['metrics'].values() if m.get('match') is True)
CountMatches(metrics) ==
    Cardinality({m \in DOMAIN metrics : Get(metrics[m], "match") = Bool(TRUE)})

\* every entry counted, with or without ground truth
CountTotalAll(metrics) == Cardinality(DOMAIN metrics)

\* sum(1 for m in results['metrics'].values() if m.get('ground_truth') is not None)
CountTotal(metrics) ==
    Cardinality({m \in DOMAIN metrics : Get(metrics[m], "ground_truth") # None})

\* matches / total if total > 0 else 0.0
Accuracy(matches, total) == IF total > 0 THEN Ratio(matches, total) ELSE Fin(0, 0)

Returned(d) == [t |-> "returned", value |-> d]

\* the row lookup without the membership test: pandas raises KeyError
NotFoundRaises(ticker) == Raised("KeyError")

\* what evaluate returns for a ticker that is not in the table
NotFound(ticker) ==
    Returned([ticker |-> ticker,
              error |-> <<"Ticker ", ticker, " not found in ground truth">>])

\* Evaluator.evaluate(extracted, tolerance) on the table ground_truth
Evaluate(ground_truth, extracted, tolerance) ==
    LET ticker == extracted.company_ticker IN
    IF ticker \notin DOMAIN ground_truth THEN NotFound(ticker)
    ELSE LET gt == ground_truth[ticker]
             metrics == [m \in MetricNames |->
                            EvalMetric(m, extracted[m], Get(gt, m), tolerance)]
             failed == {i \in DOMAIN Metrics : "exc" \in DOMAIN metrics[Metrics[i]]}
         IN IF failed # {}
            THEN metrics[Metrics[CHOOSE i \in failed : \A j \in failed : i <= j]]
            ELSE Returned([ticker |-> ticker, metrics |-> metrics,
                           accuracy |-> Accuracy(CountMatches(metrics),
                                                 CountTotal(metrics))])

----------------------------------------------------------------------------
(* The inputs of the evaluation runs *)

AAPL == <<"A", "A", "P", "L">>
ZZZZ == <<"Z", "Z", "Z", "Z">>

Cik320193 == <<"3", "2", "0", "1", "9", "3">>
CikPadded == Zeros(4) \o Cik320193
CikDashed == Zeros(4) \o <<"-">> \o Cik320193
CikSpaced == <<" ", "3", "2", "0", " ", "1", "9", "3">>
CikOther == Zeros(4) \o <<"3", "2", "0", "1", "9", "4">>
CikLong == Zeros(5) \o Cik320193

\* the cik a FinancialMetrics can carry
ExtractedCiks == {None, Str(Cik320193), Str(CikPadded), Str(CikDashed), Str(CikOther),
                  Str(CikLong)}

\* the cik cell of a ground-truth row: empty (NaN), no such column (None), an
\* int64, a float64 (a column with an empty cell elsewhere) or a str
TruthCiks == {NaN, None, PyInt(320193), Fin(320193, 0), Str(CikPadded), Str(CikSpaced)}

ExtractedRevenues ==
    {None, NaN, Inf(FALSE), Fin(0, 0), Fin(100, 0), Fin(101, 0), Fin(1011, 1),
     Fin(110, 0), Fin(1101, 1), Fin(150, 0), Fin(1501, 1), Fin(-100, 0)}

TruthRevenues == {NaN, Fin(0, 0), PyInt(100), Fin(1005, 1), Fin(-100, 0)}

ExtractedIncomes == {None, Fin(0, 0), Fin(100, 0), Fin(-50, 0)}

TruthIncomes == {NaN, Fin(0, 0), Fin(100, 0)}

Tolerances == {DefaultTolerance, Fin(5, 2), Fin(0, 0)}

FinancialMetrics(ticker, cik, total_revenue, net_income) ==
    [company_ticker |-> ticker, fiscal_year |-> None, cik |-> cik,
     total_revenue |-> total_revenue, net_income |-> net_income]

InitEval ==
    /\ evExtracted \in {FinancialMetrics(tk, c, r, n) :
                            tk \in {AAPL, ZZZZ}, c \in ExtractedCiks,
                            r \in ExtractedRevenues, n \in ExtractedIncomes}
    /\ evGroundTruth \in {[tk \in {AAPL} |-> [cik |-> c, total_revenue |-> r,
                                             net_income |-> n]] :
                            c \in TruthCiks, r \in TruthRevenues, n \in TruthIncomes}
    /\ evTolerance \in Tolerances
    /\ evResult = Pending
    /\ vnInput = None
    /\ vnResult = Pending
    /\ ctText = None
    /\ ctChunkSize = None
    /\ ctResult = Pending
    /\ htDoc = None
    /\ htTextParts = None
    /\ htResult = Pending
    /\ exCls = None
    /\ exParser = None
    /\ exTicker = None
    /\ exPc = "idle"
    /\ exQueries = 0
    /\ exResponse = Pending
    /\ exResult = Pending
    /\ mnDriver = None
    /\ mnArgs = None
    /\ mnGroundTruth = None
    /\ mnFound = <<>>
    /\ mnPc = "idle"
    /\ mnDocs = <<>>
    /\ mnIndex = 0
    /\ mnTodo = <<>>
    /\ mnResults = <<>>
    /\ mnAttempts = <<>>
    /\ mnConstructed = 0
    /\ mnWrites = 0
    /\ mnExit = None
    /\ mnEvaluation = <<>>
    /\ rtRecord = None
    /\ rtPc = "idle"
    /\ rtDump = Pending
    /\ rtFile = Pending
    /\ rtRebuilt = Pending
    /\ fsDocuments = None
    /\ fsFiltered = Pending
    /\ fsIndexed = Pending
    /\ cmPc = "idle"
    /\ cmIndex = 0
    /\ cmElapsed = 0
    /\ cmRuns = <<>>
    /\ cmResults = <<>>
    /\ cmCompared = None
    /\ dlPc = "idle"
    /\ dlTickerIndex = 0
    /\ dlPdfsCreated = 0
    /\ dlFilingDirs = 0
    /\ dlAttempts = <<>>
    /\ ftPc = "idle"
    /\ ftExists = FALSE
    /\ ftCsv = <<>>
    /\ ftFrame = <<>>
    /\ ftIndex = 0
    /\ ftUpdated = 0
    /\ ftWritten = {}
    /\ ftSaved = Pending

\* a call of Evaluator.evaluate
EvaluateCall ==
    /\ evResult = Pending
    /\ evResult' = Evaluate(evGroundTruth, evExtracted, evTolerance)
    /\ UNCHANGED <<evExtracted, evGroundTruth, evTolerance>>
    /\ UNCHANGED <<normVars, chunkVars, htmlVars, extractVars, mainVars, roundVars, filterVars, compareVars, downloadVars, featureVars>>

SpecEval == InitEval /\ [][EvaluateCall]_vars

----------------------------------------------------------------------------
(* FinancialMetrics.validate_numeric *)

IsDigit(c) == c \in {"0", "1", "2", "3", "4", "5", "6", "7", "8", "9"}

DigitValue(c) == CHOOSE d \in 0..9 : Digit(d) = c

RECURSIVE AllDigits(_)
AllDigits(s) == s = <<>> \/ (IsDigit(Head(s)) /\ AllDigits(Tail(s)))

RECURSIVE DigitsToNat(_)
DigitsToNat(s) ==
    IF s = <<>> THEN 0 ELSE 10 * DigitsToNat(SubSeq(s, 1, Len(s) - 1)) + DigitValue(s[Len(s)])

\* the positions of character c in s
Positions(s, c) == {i \in DOMAIN s : s[i] = c}

Lower(c) ==
    CASE c = "I" -> "i" [] c = "N" -> "n" [] c = "F" -> "f" [] c = "A" -> "a"
      [] c = "T" -> "t" [] c = "Y" -> "y" [] c = "E" -> "e" [] c = "M" -> "m"
      [] c = "C" -> "c" [] c = "S" -> "s" [] c = "H" -> "h" [] c = "L" -> "l"
      [] c = "O" -> "o" [] c = "W" -> "w" [] c = "B" -> "b" [] OTHER -> c

LowerStr(s) == [i \in DOMAIN s |-> Lower(s[i])]

\* float(s) of an unsigned decimal numeral with optional exponent, negated when
\* neg; ValueError when s is no such numeral.  (Digit-group underscores, which
\* float() accepts, are not in the input alphabet.)
ParseNumeral(s, neg) ==
    LET ls == LowerStr(s)
        es == Positions(ls, "e")
        epos == IF es = {} THEN Len(s) + 1 ELSE CHOOSE i \in es : \A j \in es : i <= j
        mant == SubSeq(s, 1, epos - 1)
        expo == SubSeq(s, epos + 1, Len(s))
        expNeg == expo # <<>> /\ Head(expo) = "-"
        expDigits == IF expo # <<>> /\ Head(expo) \in {"+", "-"} THEN Tail(expo) ELSE expo
        dots == Positions(mant, ".")
        dot == IF dots = {} THEN Len(mant) + 1 ELSE CHOOSE i \in dots : TRUE
        whole == SubSeq(mant, 1, dot - 1)
        frac == SubSeq(mant, dot + 1, Len(mant))
        okMant == /\ Cardinality(dots) <= 1
                  /\ AllDigits(whole) /\ AllDigits(frac)
                  /\ Len(whole) + Len(frac) > 0
        okExp == es = {} \/ (expDigits # <<>> /\ AllDigits(expDigits))
        m == DigitsToNat(whole \o frac)
        x == IF es = {} THEN 0 ELSE DigitsToNat(expDigits)
        \* the value is m * 10^(shift - Len(frac))
        shift == IF expNeg THEN -x ELSE x
        sm == IF neg THEN -m ELSE m
    IN IF ~(okMant /\ okExp) THEN Raised("ValueError")
       ELSE IF shift >= Len(frac) THEN Fin(sm * Pow10(shift - Len(frac)), 0)
       ELSE Fin(sm, Len(frac) - shift)

\* float(s) for a str s
ParseFloat(s) ==
    LET t == Strip(s)
        signed == t # <<>> /\ Head(t) \in {"+", "-"}
        neg == t # <<>> /\ Head(t) = "-"
        body == IF signed THEN Tail(t) ELSE t
        word == LowerStr(body)
    IN IF word \in {<<"i", "n", "f">>, <<"i", "n", "f", "i", "n", "i", "t", "y">>}
       THEN Inf(neg)
       ELSE IF word = <<"n", "a", "n">> THEN NaN
       ELSE ParseNumeral(body, neg)

\* the formatting removed with the parentheses dropped, not turned into a sign
CleanNumericParenDropped(s) ==
    Strip(Replace(Replace(Replace(Replace(s, ",", <<>>), "$", <<>>), "(", <<>>), ")", <<>>))

\* v.replace(',', '').replace('$', '').replace('(', '-').replace(')', '').strip()
CleanNumeric(s) ==
    Strip(Replace(Replace(Replace(Replace(s, ",", <<>>), "$", <<>>), "(", <<"-">>), ")", <<>>))

\* float(v) with the ValueError left to propagate
TryFloatNoExcept(s) == ParseFloat(s)

\* try: return float(v)  except ValueError: return None
TryFloat(s) == LET r == ParseFloat(s) IN IF IsRaised(r) THEN None ELSE r

\* float(v) for a v that is not a str
FloatOf(v) ==
    CASE v.t = "int" -> Fin(v.v, 0)
      [] v.t = "float" -> v
      [] OTHER -> Raised("TypeError")

\* FinancialMetrics.validate_numeric(v)
ValidateNumeric(v) ==
    IF v = None \/ v = Str(<<>>) THEN None
    ELSE IF v.t = "str"
    THEN LET c == CleanNumeric(v.v)
         IN IF c = <<>> \/ c = <<"-">> THEN None ELSE TryFloat(c)
    ELSE FloatOf(v)

----------------------------------------------------------------------------
(* The inputs of the validate_numeric runs *)

MaxLen == 4

Alphabet == {"0", "1", ".", ",", "$", "(", ")", "-", " ", "x"}

BoundedStrings == UNION {[1..n -> Alphabet] : n \in 0..MaxLen}

ScenarioStrings ==
    {<<"$", "(", "1", ",", "2", "3", "4", ".", "5", ")">>,
     <<"(", "1", ",", "2", "3", "4", ".", "5", "0">>,
     <<"n", "a", "n">>, <<"-", "I", "n", "f">>, <<"N", "/", "A">>,
     <<"1", "e", "3">>, <<"(", "2", "5", "e", "(", "1", ")">>, <<"1", "e">>,
     <<"1", "2", ".", "5", " ", "m", "i", "l", "l", "i", "o", "n">>}

NumericInputs ==
    {None, PyInt(5), Fin(15, 1), NaN, [t |-> "list"]}
        \cup {Str(s) : s \in BoundedStrings \cup ScenarioStrings}

InitNorm ==
    /\ vnInput \in NumericInputs
    /\ vnResult = Pending
    /\ evExtracted = None
    /\ evGroundTruth = None
    /\ evTolerance = None
    /\ evResult = Pending
    /\ ctText = None
    /\ ctChunkSize = None
    /\ ctResult = Pending
    /\ htDoc = None
    /\ htTextParts = None
    /\ htResult = Pending
    /\ exCls = None
    /\ exParser = None
    /\ exTicker = None
    /\ exPc = "idle"
    /\ exQueries = 0
    /\ exResponse = Pending
    /\ exResult = Pending
    /\ mnDriver = None
    /\ mnArgs = None
    /\ mnGroundTruth = None
    /\ mnFound = <<>>
    /\ mnPc = "idle"
    /\ mnDocs = <<>>
    /\ mnIndex = 0
    /\ mnTodo = <<>>
    /\ mnResults = <<>>
    /\ mnAttempts = <<>>
    /\ mnConstructed = 0
    /\ mnWrites = 0
    /\ mnExit = None
    /\ mnEvaluation = <<>>
    /\ rtRecord = None
    /\ rtPc = "idle"
    /\ rtDump = Pending
    /\ rtFile = Pending
    /\ rtRebuilt = Pending
    /\ fsDocuments = None
    /\ fsFiltered = Pending
    /\ fsIndexed = Pending
    /\ cmPc = "idle"
    /\ cmIndex = 0
    /\ cmElapsed = 0
    /\ cmRuns = <<>>
    /\ cmResults = <<>>
    /\ cmCompared = None
    /\ dlPc = "idle"
    /\ dlTickerIndex = 0
    /\ dlPdfsCreated = 0
    /\ dlFilingDirs = 0
    /\ dlAttempts = <<>>
    /\ ftPc = "idle"
    /\ ftExists = FALSE
    /\ ftCsv = <<>>
    /\ ftFrame = <<>>
    /\ ftIndex = 0
    /\ ftUpdated = 0
    /\ ftWritten = {}
    /\ ftSaved = Pending

\* a call of the validator on a field value
ValidateNumericCall ==
    /\ vnResult = Pending
    /\ vnResult' = ValidateNumeric(vnInput)
    /\ UNCHANGED vnInput
    /\ UNCHANGED <<evalVars, chunkVars, htmlVars, extractVars, mainVars, roundVars, filterVars, compareVars, downloadVars, featureVars>>

SpecNorm == InitNorm /\ [][ValidateNumericCall]_vars

----------------------------------------------------------------------------
(* Properties of Evaluator.evaluate, under SpecEval *)

NumericMetrics == {"total_revenue", "net_income"}

EvCalled == evResult # Pending
EvTickerKnown == evExtracted.company_ticker \in DOMAIN evGroundTruth
\* evaluate returned a record with per-metric entries
EvScored == evResult.t = "returned" /\ "metrics" \in DOMAIN evResult.value
EvRow == evGroundTruth[evExtracted.company_ticker]
EvEntry(m) == evResult.value.metrics[m]
EvHasTruth(m) == ~IsNa(EvRow[m])
EvBothPresent(m) == EvHasTruth(m) /\ evExtracted[m] # None

\* |e - g| / |g| <= tol over the reals, for a finite float e, a finite non-zero
\* float g and a finite tol
RelErrWithin(e, g, tol) ==
    LET E == MaxInt(e.e, g.e)
        A == e.m * Pow10(E - e.e)
        G == g.m * Pow10(E - g.e)
    IN AbsInt(A - G) * Pow10(tol.e) <= tol.m * AbsInt(G)

\* C1: whenever evaluate records a numeric metric whose two values are present,
\* its match flag is exactly (|extracted - truth| / |truth| <= tolerance); a
\* relative error that is not a number (nan) or infinite is not within tolerance.
C1_MatchIffWithinTolerance ==
    EvScored =>
        \A m \in NumericMetrics :
            EvBothPresent(m) =>
                LET e == evExtracted[m]
                    g == ToFloat(EvRow[m])
                IN /\ "relative_error" \in DOMAIN EvEntry(m)
                   /\ EvEntry(m).match =
                        Bool(IsFinite(e) /\ g.m # 0 /\ RelErrWithin(e, g, evTolerance))

C1_Witness ==
    /\ EvScored
    /\ EvBothPresent("total_revenue") /\ EvEntry("total_revenue").match = Bool(TRUE)
    /\ EvEntry("total_revenue").relative_error = Ratio(1, 100)
    /\ EvBothPresent("net_income") /\ EvEntry("net_income").match = Bool(FALSE)

\* C2: a numeric metric whose ground truth is exactly zero and whose extracted
\* value is present: evaluate returns, with relative error infinite, match False
\* and an error classification for that metric.
C2_ZeroTruthReturnsMismatch ==
    (EvCalled /\ EvTickerKnown) =>
        \A m \in NumericMetrics :
            (EvBothPresent(m) /\ IsZero(ToFloat(EvRow[m]))) =>
                /\ EvScored
                /\ EvEntry(m).match = Bool(FALSE)
                /\ EvEntry(m).relative_error = Inf(FALSE)
                /\ "error_type" \in DOMAIN EvEntry(m)

\* C3: accuracy is (metrics with match True) / (metrics that have ground truth),
\* lies in [0,1], and is 0.0 when no metric has ground truth.
C3_Accuracy ==
    EvScored =>
        LET n == Cardinality({m \in MetricNames : EvHasTruth(m)})
            k == Cardinality({m \in MetricNames : EvEntry(m).match = Bool(TRUE)})
            acc == evResult.value.accuracy
        IN /\ k <= n
           /\ acc = IF n = 0 THEN Fin(0, 0) ELSE Ratio(k, n)
           /\ 0 <= Num(acc) /\ Num(acc) <= Den(acc)

C3_Witness == EvScored /\ evResult.value.accuracy = Ratio(2, 3)

\* C4: a metric without ground truth is recorded with match None and
\* ground_truth None, keeps the extracted value, and is left out of both the
\* numerator and the denominator of accuracy.
C4_NoTruthExcluded ==
    EvScored =>
        LET S == {m \in MetricNames : EvHasTruth(m)}
            k == Cardinality({m \in S : EvEntry(m).match = Bool(TRUE)})
        IN /\ \A m \in MetricNames \ S :
                /\ EvEntry(m).match = None
                /\ EvEntry(m).ground_truth = None
                /\ EvEntry(m).extracted = evExtracted[m]
           /\ evResult.value.accuracy = Accuracy(k, Cardinality(S))

C4_Witness ==
    /\ EvScored
    /\ ~EvHasTruth("total_revenue") /\ evExtracted.total_revenue = Fin(100, 0)
    /\ evResult.value.accuracy = Ratio(1, 2)

\* C5: a metric with ground truth whose extracted value is None is recorded
\* with match False and error 'Value not extracted', and counts in the
\* denominator of accuracy.
C5_NotExtractedIsMismatch ==
    EvScored =>
        LET U == {m \in MetricNames : EvHasTruth(m) /\ evExtracted[m] = None}
            acc == evResult.value.accuracy
        IN /\ \A m \in U :
                /\ EvEntry(m).match = Bool(FALSE)
                /\ EvEntry(m).error = Str("Value not extracted")
                /\ EvEntry(m).ground_truth # None
           /\ U # {} =>
                /\ acc.k = "ratio"
                /\ acc.d >= Cardinality(U)
                /\ acc.n <= acc.d - Cardinality(U)

C5_Witness ==
    /\ EvScored
    /\ EvHasTruth("total_revenue") /\ evExtracted.total_revenue = None
    /\ evResult.value.accuracy = Ratio(1, 3)

\* C6: for a ticker that is not in the ground-truth table evaluate does not
\* raise; it returns a record with the ticker and a 'not found in ground truth'
\* error, without any metric entry or accuracy.
C6_UnknownTicker ==
    (EvCalled /\ ~EvTickerKnown) =>
        /\ evResult.t = "returned"
        /\ DOMAIN evResult.value = {"ticker", "error"}
        /\ evResult.value.ticker = evExtracted.company_ticker
        /\ evResult.value.error[3] = " not found in ground truth"

C6_Witness == EvCalled /\ ~EvTickerKnown /\ evExtracted.total_revenue # None

\* the class the classification rule gives a relative error r
ClassOf(r) ==
    IF FloatLe(r, Fin(1, 2)) THEN "None (within tolerance)"
    ELSE IF FloatLe(r, Fin(10, 2)) THEN "Minor (rounding/formatting)"
    ELSE IF FloatGt(r, Fin(50, 2)) THEN "Major (wrong value/column)"
    ELSE IF FloatGt(r, Fin(10, 2)) /\ FloatLe(r, Fin(50, 2))
    THEN "Moderate (partial match)"
    ELSE "unclassified"

\* the relative error of a numeric comparison: infinite on a zero ground truth
RelErrOf(e, g) == IF IsZero(g) THEN Inf(FALSE) ELSE Div(AbsSub(e, g), AbsF(g))

\* C7: every numeric comparison gets exactly one class by its relative error r:
\* r <= 0.01 'None', 0.01 < r <= 0.10 'Minor', r > 0.50 'Major',
\* 0.10 < r <= 0.50 'Moderate'.
C7_ClassifyPartition ==
    (EvCalled /\ EvTickerKnown) =>
        \A m \in NumericMetrics :
            EvBothPresent(m) =>
                /\ EvScored
                /\ EvEntry(m).error_type =
                      Str(ClassOf(RelErrOf(evExtracted[m], ToFloat(EvRow[m]))))

IsCikSeparator(c) == c \in {"-", " "}

RECURSIVE LeftPad10(_)
LeftPad10(s) == IF Len(s) < 10 THEN LeftPad10(<<"0">> \o s) ELSE s

\* C8: metric cik, both values present: match is True exactly when the two CIKs,
\* as strings, are equal after removing '-' and ' ' and left-padding with zeros
\* to 10 characters; '320193' matches '0000320193'.
C8_CikMatch ==
    EvScored =>
        (EvBothPresent("cik") =>
            LET e == SelectSeq(PyStr(evExtracted.cik), LAMBDA c : ~IsCikSeparator(c))
                g == SelectSeq(PyStr(EvRow.cik), LAMBDA c : ~IsCikSeparator(c))
            IN /\ EvEntry("cik").match = Bool(LeftPad10(e) = LeftPad10(g))
               /\ (evExtracted.cik = Str(Cik320193) /\ EvRow.cik = Str(CikPadded))
                     => EvEntry("cik").match = Bool(TRUE))

C8_Witness ==
    /\ EvScored
    /\ evExtracted.cik = Str(Cik320193) /\ EvRow.cik = Str(CikPadded)
    /\ EvEntry("cik").match = Bool(TRUE)

----------------------------------------------------------------------------
(* Properties of FinancialMetrics.validate_numeric, under SpecNorm *)

VnCalled == vnResult # Pending
VnOnString == VnCalled /\ vnInput.t = "str"

\* the input with its commas and dollar signs removed
WithoutCommaDollar(s) == SelectSeq(s, LAMBDA c : c \notin {",", "$"})

\* the input as the normalizer reads it: no comma, '$' or ')', each '(' a '-',
\* surrounding whitespace removed
Residual(s) ==
    Strip([i \in DOMAIN SelectSeq(s, LAMBDA c : c \notin {",", "$", ")"}) |->
            LET c == SelectSeq(s, LAMBDA d : d \notin {",", "$", ")"})[i]
            IN IF c = "(" THEN "-" ELSE c])

IsSpecialWord(s) ==
    LET b == IF s # <<>> /\ s[1] \in {"+", "-"} THEN Tail(s) ELSE s
    IN LowerStr(b) \in {<<"i", "n", "f">>, <<"n", "a", "n">>,
                        <<"i", "n", "f", "i", "n", "i", "t", "y">>}

\* sufficient reasons for a string not to be a float literal
Unparseable(s) ==
    /\ ~IsSpecialWord(s)
    /\ \/ \E i \in DOMAIN s : ~IsDigit(s[i]) /\ s[i] \notin {".", "+", "-", "e", "E", "_"}
       \/ \A i \in DOMAIN s : ~IsDigit(s[i])
       \/ Cardinality(Positions(s, ".")) > 1
       \/ \E i \in DOMAIN s : s[i] = "-" /\ i > 1 /\ s[i - 1] \notin {"e", "E"}

\* C9: on None and on every string the normalizer returns a float or None and
\* does not raise; None, the empty string, a string that reduces to '' or '-',
\* and an unparseable string give None.
C9_StringsNeverRaise ==
    (VnCalled /\ vnInput.t \in {"NoneType", "str"}) =>
        /\ vnResult = None \/ vnResult.t = "float"
        /\ vnInput = None => vnResult = None
        /\ vnInput.t = "str" =>
              LET r == Residual(vnInput.v)
              IN (r = <<>> \/ r = <<"-">> \/ Unparseable(r)) => vnResult = None

C9_Witness ==
    /\ VnCalled
    /\ vnInput = Str(<<"1", ".", "1", ".">>)
    /\ vnResult = None

NonNegative(x) ==
    \/ x = None
    \/ x.t = "float" /\ x.k = "nan"
    \/ x.t = "float" /\ x.k = "inf" /\ ~x.neg
    \/ x.t = "float" /\ x.k = "fin" /\ x.m >= 0

\* the string starts with '(' and ends with ')' once commas, '$' and
\* surrounding whitespace are removed
HasParenPair(s) ==
    LET u == Strip(WithoutCommaDollar(s))
    IN Len(u) >= 2 /\ u[1] = "(" /\ u[Len(u)] = ")"

\* what is between the parentheses of a pair
InsidePair(s) ==
    LET u == Strip(WithoutCommaDollar(s)) IN SubSeq(u, 2, Len(u) - 1)

VnScenario == <<"$", "(", "1", ",", "2", "3", "4", ".", "5", ")">>

\* what the two readings of the parenthesis rule share: '$(1,234.5)' gives
\* -1234.5; commas and '$' do not change the result; a pair around a string
\* without parentheses reads as that string after a minus sign
ParenRuleCommon ==
    /\ vnInput.v = VnScenario => vnResult = Fin(-12345, 1)
    /\ vnResult = ValidateNumeric(Str(WithoutCommaDollar(vnInput.v)))
    /\ (HasParenPair(vnInput.v)
          /\ Positions(InsidePair(vnInput.v), "(") = {}
          /\ Positions(InsidePair(vnInput.v), ")") = {})
         => vnResult = ValidateNumeric(Str(<<"-">> \o InsidePair(vnInput.v)))

\* C10 as stated: commas and '$' are removed, a leading '(' with a trailing ')'
\* becomes a leading minus sign ('$(1,234.5)' gives -1234.5), and a string
\* without such a pair is not negated by the parenthesis rule.
C10_OnlyPairNegates ==
    VnOnString =>
        /\ ParenRuleCommon
        /\ (~HasParenPair(vnInput.v) /\ Positions(vnInput.v, "-") = {})
             => NonNegative(vnResult)

\* C10, amended: commas and '$' are removed, every '(' reads as a minus sign and
\* every ')' is dropped, paired or not: '$(1,234.5)' gives -1234.5, and so does
\* an unpaired '(1' give -1.0; a string with neither '(' nor '-' is not negated.
C10_EveryParenNegates ==
    VnOnString =>
        /\ ParenRuleCommon
        /\ vnResult = ValidateNumeric(Str(Replace(Replace(vnInput.v, "(", <<"-">>),
                                                  ")", <<>>)))
        /\ vnInput.v = <<"(", "1">> => vnResult = Fin(-1, 0)
        /\ (Positions(vnInput.v, "(") = {} /\ Positions(vnInput.v, "-") = {})
             => NonNegative(vnResult)

C10_Witness ==
    /\ VnCalled
    /\ vnInput = Str(VnScenario)
    /\ vnResult = Fin(-12345, 1)

----------------------------------------------------------------------------
(* BaselineExtractor._chunk_text *)

RECURSIVE SplitFrom(_, _)
\* the words of s after a partly read word
SplitFrom(s, word) ==
    LET done == IF word = <<>> THEN <<>> ELSE <<word>>
    IN IF s = <<>> THEN done
       ELSE IF IsSpace(Head(s)) THEN done \o SplitFrom(Tail(s), <<>>)
       ELSE SplitFrom(Tail(s), word \o <<Head(s)>>)

\* s.split(): the maximal runs of non-whitespace characters
Split(s) == SplitFrom(s, <<>>)

RECURSIVE Join(_, _)
\* sep.join(parts)
Join(sep, parts) ==
    IF parts = <<>> THEN <<>>
    ELSE IF Len(parts) = 1 THEN parts[1]
    ELSE parts[1] \o sep \o Join(sep, Tail(parts))

\* the size counted for a word with no separator
WordSizeNoSeparator(word) == Len(word)

\* word_size = len(word) + 1
WordSize(word) == Len(word) + 1

\* the flush condition without the test that the current chunk has a word
OverflowsEvenEmpty(current_size, word_size, chunk_size, current_chunk) ==
    current_size + word_size > chunk_size

\* current_size + word_size > chunk_size and current_chunk
Overflows(current_size, word_size, chunk_size, current_chunk) ==
    current_size + word_size > chunk_size /\ current_chunk # <<>>

RECURSIVE ChunkLoop(_, _, _, _, _)
\* the loop over the words, and the flush of the last chunk after it
ChunkLoop(words, chunk_size, chunks, current_chunk, current_size) ==
    IF words = <<>>
    THEN IF current_chunk # <<>>
         THEN Append(chunks, Join(<<" ">>, current_chunk))
         ELSE chunks
    ELSE LET word == Head(words)
             word_size == WordSize(word)
         IN IF Overflows(current_size, word_size, chunk_size, current_chunk)
            THEN ChunkLoop(Tail(words), chunk_size,
                           Append(chunks, Join(<<" ">>, current_chunk)),
                           <<word>>, word_size)
            ELSE ChunkLoop(Tail(words), chunk_size, chunks,
                           Append(current_chunk, word), current_size + word_size)

\* _chunk_text(text, chunk_size): the list of chunks
ChunkText(text, chunk_size) == ChunkLoop(Split(text), chunk_size, <<>>, <<>>, 0)

----------------------------------------------------------------------------
(* The inputs of the _chunk_text runs *)

MaxTextLen == 6

MaxChunkSize == 5

TextAlphabet == {"a", "b", " ", "\n"}

BoundedTexts == UNION {[1..n -> TextAlphabet] : n \in 0..MaxTextLen}

ScenarioTexts ==
    {<<"a", " ", "b", " ", "a", "a", "a", "a", "a", "a", "a", " ", "b">>,
     <<" ", "a", "b", "\t", "\n", "b", "a", " ", " ", "a", " ", "b", "\n">>}

InitChunk ==
    /\ ctText \in BoundedTexts \cup ScenarioTexts
    /\ ctChunkSize \in 0..MaxChunkSize
    /\ ctResult = Pending
    /\ evExtracted = None
    /\ evGroundTruth = None
    /\ evTolerance = None
    /\ evResult = Pending
    /\ vnInput = None
    /\ vnResult = Pending
    /\ htDoc = None
    /\ htTextParts = None
    /\ htResult = Pending
    /\ exCls = None
    /\ exParser = None
    /\ exTicker = None
    /\ exPc = "idle"
    /\ exQueries = 0
    /\ exResponse = Pending
    /\ exResult = Pending
    /\ mnDriver = None
    /\ mnArgs = None
    /\ mnGroundTruth = None
    /\ mnFound = <<>>
    /\ mnPc = "idle"
    /\ mnDocs = <<>>
    /\ mnIndex = 0
    /\ mnTodo = <<>>
    /\ mnResults = <<>>
    /\ mnAttempts = <<>>
    /\ mnConstructed = 0
    /\ mnWrites = 0
    /\ mnExit = None
    /\ mnEvaluation = <<>>
    /\ rtRecord = None
    /\ rtPc = "idle"
    /\ rtDump = Pending
    /\ rtFile = Pending
    /\ rtRebuilt = Pending
    /\ fsDocuments = None
    /\ fsFiltered = Pending
    /\ fsIndexed = Pending
    /\ cmPc = "idle"
    /\ cmIndex = 0
    /\ cmElapsed = 0
    /\ cmRuns = <<>>
    /\ cmResults = <<>>
    /\ cmCompared = None
    /\ dlPc = "idle"
    /\ dlTickerIndex = 0
    /\ dlPdfsCreated = 0
    /\ dlFilingDirs = 0
    /\ dlAttempts = <<>>
    /\ ftPc = "idle"
    /\ ftExists = FALSE
    /\ ftCsv = <<>>
    /\ ftFrame = <<>>
    /\ ftIndex = 0
    /\ ftUpdated = 0
    /\ ftWritten = {}
    /\ ftSaved = Pending

\* a call of _chunk_text
ChunkTextCall ==
    /\ ctResult = Pending
    /\ ctResult' = Returned(ChunkText(ctText, ctChunkSize))
    /\ UNCHANGED <<ctText, ctChunkSize>>
    /\ UNCHANGED <<evalVars, normVars, htmlVars, extractVars, mainVars, roundVars, filterVars, compareVars, downloadVars, featureVars>>

SpecChunk == InitChunk /\ [][ChunkTextCall]_vars

----------------------------------------------------------------------------
(* Properties of _chunk_text, under SpecChunk *)

CtCalled == ctResult # Pending

CtChunks == ctResult.value

CtWords == Split(ctText)

\* the words of the chunks before chunk i
CtWordsBefore(i) == Len(Split(Join(<<" ">>, SubSeq(CtChunks, 1, i - 1))))

\* the indices, in text.split(), of the words that begin a chunk
CtStarts == {CtWordsBefore(i) + 1 : i \in DOMAIN CtChunks}

\* the index of the first word of the chunk that holds word k
CtStartOf(k) == CHOOSE s \in CtStarts : s <= k /\ \A u \in CtStarts : u <= k => u <= s

\* C11: joining the chunks with single spaces and splitting on whitespace
\* gives text.split(); no chunk is empty; the list of chunks is empty exactly
\* when the text holds no word.
C11_ChunksKeepWords ==
    CtCalled =>
        /\ Split(Join(<<" ">>, CtChunks)) = CtWords
        /\ \A i \in DOMAIN CtChunks : CtChunks[i] # <<>>
        /\ CtChunks = <<>> <=> CtWords = <<>>

C11_Witness ==
    /\ CtCalled
    /\ Len(CtChunks) >= 2
    /\ Len(CtWords) > Len(CtChunks)
    /\ \E i \in DOMAIN ctText : ctText[i] = "\n"

\* C12: for chunk_size >= 1 a chunk is no longer than chunk_size unless it is
\* one word longer than chunk_size, and a word that would make the current
\* chunk longer than chunk_size is the first word of the next chunk.
C12_ChunksWithinSize ==
    CtCalled /\ ctChunkSize >= 1 =>
        /\ \A i \in DOMAIN CtChunks :
              \/ Len(CtChunks[i]) <= ctChunkSize
              \/ Split(CtChunks[i]) = <<CtChunks[i]>>
        /\ \A k \in 2..Len(CtWords) :
              LET current == Join(<<" ">>, SubSeq(CtWords, CtStartOf(k - 1), k - 1))
              IN Len(current) + 1 + Len(CtWords[k]) > ctChunkSize => k \in CtStarts

C12_Witness ==
    /\ CtCalled /\ ctChunkSize >= 1
    /\ \E i \in DOMAIN CtChunks : Len(CtChunks[i]) > ctChunkSize
    /\ \E i \in DOMAIN CtChunks :
          /\ Len(Split(CtChunks[i])) >= 2
          /\ i < Len(CtChunks)

----------------------------------------------------------------------------
(* BaselineExtractor.extract_text_from_html, on the parsed document *)

\* a tag with its children, in document order
Elem(tag, kids) == [tag |-> tag, kids |-> kids]

\* a text node (a NavigableString)
Text(s) == [tag |-> "#text", text |-> s]

IsText(node) == node.tag = "#text"

RECURSIVE Concat(_)
\* the concatenation of a sequence of sequences
Concat(ss) == IF ss = <<>> THEN <<>> ELSE Head(ss) \o Concat(Tail(ss))

\* the tree with nothing removed
DecomposeNothing(node) == node

RECURSIVE Decompose(_)
\* the tree after decompose() of every script and style element
Decompose(node) ==
    IF IsText(node) THEN node
    ELSE LET kept == SelectSeq(node.kids, LAMBDA k : k.tag \notin {"script", "style"})
         IN Elem(node.tag, [i \in DOMAIN kept |-> Decompose(kept[i])])

RECURSIVE Descendants(_, _)
\* every node below node, in document order, each with whether one of its
\* ancestors is a table (find_parent('table') is not None)
Descendants(node, in_table) ==
    IF IsText(node) THEN <<>>
    ELSE LET below == in_table \/ node.tag = "table"
         IN Concat([i \in DOMAIN node.kids |->
                <<[node |-> node.kids[i], in_table |-> below]>>
                    \o Descendants(node.kids[i], below)])

\* node.find_all(tags): the matching elements at any depth below node
FindAll(node, tags) ==
    SelectSeq(Descendants(node, FALSE), LAMBDA d : d.node.tag \in tags)

\* the text nodes below node (or node itself), in document order
Strings(node) ==
    IF IsText(node) THEN <<node.text>>
    ELSE LET texts == SelectSeq(Descendants(node, FALSE), LAMBDA d : IsText(d.node))
         IN [i \in DOMAIN texts |-> texts[i].node.text]

\* node.get_text(separator=sep, strip=True): each string stripped at its
\* ends, the empty ones skipped
GetText(node, sep) ==
    LET strings == Strings(node)
        stripped == [i \in DOMAIN strings |-> Strip(strings[i])]
    IN Join(sep, SelectSeq(stripped, LAMBDA t : t # <<>>))

\* the line of one row: its cells' texts joined by ' | ', if it has a cell
RowLines(row) ==
    LET found == FindAll(row, {"td", "th"})
        cells == [i \in DOMAIN found |-> GetText(found[i].node, <<" ">>)]
    IN IF cells # <<>> THEN <<Join(<<" ", "|", " ">>, cells)>> ELSE <<>>

\* table_text of one table
TableText(table) ==
    LET rows == FindAll(table, {"tr"})
    IN Concat([i \in DOMAIN rows |-> RowLines(rows[i].node)])

\* what one table adds to text_parts
TableParts(table) ==
    LET table_text == TableText(table)
    IN IF table_text # <<>> THEN <<Join(<<"\n">>, table_text), <<"\n">>>> ELSE <<>>

BlockTags == {"p", "div", "span", "h1", "h2", "h3", "h4", "h5", "h6"}

\* what the elements outside tables add to text_parts
BlockParts(soup) ==
    LET elems == SelectSeq(FindAll(soup, BlockTags), LAMBDA d : ~d.in_table)
        texts == [i \in DOMAIN elems |-> GetText(elems[i].node, <<" ">>)]
    IN SelectSeq(texts, LAMBDA t : t # <<>>)

\* text_parts when the fallback test is reached
TextParts(doc) ==
    LET soup == Decompose(doc)
        tables == FindAll(soup, {"table"})
    IN Concat([i \in DOMAIN tables |-> TableParts(tables[i].node)]) \o BlockParts(soup)

\* the text returned for the parsed document
ExtractTextFromHtml(doc) ==
    LET text_parts == TextParts(doc)
    IN IF text_parts = <<>>
       THEN Join(<<"\n">>, <<GetText(Decompose(doc), <<" ">>)>>)
       ELSE Join(<<"\n">>, text_parts)

----------------------------------------------------------------------------
(* The documents of the extract_text_from_html runs *)

MaxBlocks == 3

P(s) == Elem("p", <<Text(s)>>)

Td(s) == Elem("td", <<Text(s)>>)

Tr(cells) == Elem("tr", cells)

Table(rows) == Elem("table", rows)

\* the elements a document body is made of
Blocks ==
    {Text(<<"a">>),
     Elem("li", <<Text(<<"b">>)>>),
     P(<<" ">>),
     Elem("div", <<P(<<" ", "a", " ">>), Text(<<"b">>)>>),
     Elem("script", <<Text(<<"s">>)>>),
     Table(<<Tr(<<Td(<<"a">>), Elem("th", <<Text(<<"b">>)>>)>>), Tr(<<>>),
             Tr(<<Elem("td", <<Elem("style", <<Text(<<"s">>)>>)>>)>>)>>),
     Table(<<Tr(<<>>)>>),
     Table(<<Elem("tbody", <<Tr(<<Td(<<>>), Elem("td", <<P(<<"b">>)>>)>>)>>)>>),
     Table(<<Tr(<<Td(<<"a", "\n", "b">>)>>)>>),
     Table(<<Tr(<<Elem("td", <<Table(<<Tr(<<Td(<<"b">>)>>)>>)>>)>>)>>)}

\* the parser merges adjacent text, so no two text nodes are siblings
Documents ==
    {Elem("[document]", kids) :
        kids \in {ks \in UNION {[1..n -> Blocks] : n \in 0..MaxBlocks} :
                    \A i \in 1..(Len(ks) - 1) : ~(IsText(ks[i]) /\ IsText(ks[i + 1]))}}

InitHtml ==
    /\ htDoc \in Documents
    /\ htTextParts = None
    /\ htResult = Pending
    /\ evExtracted = None
    /\ evGroundTruth = None
    /\ evTolerance = None
    /\ evResult = Pending
    /\ vnInput = None
    /\ vnResult = Pending
    /\ ctText = None
    /\ ctChunkSize = None
    /\ ctResult = Pending
    /\ exCls = None
    /\ exParser = None
    /\ exTicker = None
    /\ exPc = "idle"
    /\ exQueries = 0
    /\ exResponse = Pending
    /\ exResult = Pending
    /\ mnDriver = None
    /\ mnArgs = None
    /\ mnGroundTruth = None
    /\ mnFound = <<>>
    /\ mnPc = "idle"
    /\ mnDocs = <<>>
    /\ mnIndex = 0
    /\ mnTodo = <<>>
    /\ mnResults = <<>>
    /\ mnAttempts = <<>>
    /\ mnConstructed = 0
    /\ mnWrites = 0
    /\ mnExit = None
    /\ mnEvaluation = <<>>
    /\ rtRecord = None
    /\ rtPc = "idle"
    /\ rtDump = Pending
    /\ rtFile = Pending
    /\ rtRebuilt = Pending
    /\ fsDocuments = None
    /\ fsFiltered = Pending
    /\ fsIndexed = Pending
    /\ cmPc = "idle"
    /\ cmIndex = 0
    /\ cmElapsed = 0
    /\ cmRuns = <<>>
    /\ cmResults = <<>>
    /\ cmCompared = None
    /\ dlPc = "idle"
    /\ dlTickerIndex = 0
    /\ dlPdfsCreated = 0
    /\ dlFilingDirs = 0
    /\ dlAttempts = <<>>
    /\ ftPc = "idle"
    /\ ftExists = FALSE
    /\ ftCsv = <<>>
    /\ ftFrame = <<>>
    /\ ftIndex = 0
    /\ ftUpdated = 0
    /\ ftWritten = {}
    /\ ftSaved = Pending

\* a call of extract_text_from_html, after the file was read and parsed
ExtractTextFromHtmlCall ==
    /\ htResult = Pending
    /\ htTextParts' = TextParts(htDoc)
    /\ htResult' = Returned(ExtractTextFromHtml(htDoc))
    /\ UNCHANGED htDoc
    /\ UNCHANGED <<evalVars, normVars, chunkVars, extractVars, mainVars, roundVars, filterVars, compareVars, downloadVars, featureVars>>

SpecHtml == InitHtml /\ [][ExtractTextFromHtmlCall]_vars

----------------------------------------------------------------------------
(* Properties of extract_text_from_html, under SpecHtml *)

HtCalled == htResult # Pending

HtOutput == htResult.value

RECURSIVE OwnDescendants(_, _)
\* the elements below node that are reached without entering an element
\* whose tag is in inner, in document order
OwnDescendants(node, inner) ==
    IF IsText(node) THEN <<>>
    ELSE Concat([i \in DOMAIN node.kids |->
            IF IsText(node.kids[i]) THEN <<>>
            ELSE <<node.kids[i]>> \o
                 (IF node.kids[i].tag \in inner THEN <<>>
                  ELSE OwnDescendants(node.kids[i], inner))])

\* the rows of a table itself, not those of tables nested in it
HtRows(table) == SelectSeq(OwnDescendants(table, {"table"}), LAMBDA e : e.tag = "tr")

\* the cells of a row itself, not those of rows nested in it
HtCells(row) ==
    SelectSeq(OwnDescendants(row, {"tr"}), LAMBDA e : e.tag \in {"td", "th"})

\* the one line of a row: its cells' texts joined by ' | '
HtRowLine(row) ==
    LET cells == HtCells(row)
    IN Join(<<" ", "|", " ">>, [i \in DOMAIN cells |-> GetText(cells[i], <<" ">>)])

\* the lines of a table: one for each of its rows that has a cell
HtTableLines(table) ==
    LET rows == SelectSeq(HtRows(table), LAMBDA r : HtCells(r) # <<>>)
    IN [i \in DOMAIN rows |-> HtRowLine(rows[i])]

\* the tables and the block elements outside tables, scripts and styles apart
HtVisible == Decompose(htDoc)

HtTables == FindAll(HtVisible, {"table"})

HtBlockTexts == BlockParts(HtVisible)

HtHasNewline(line) == \E i \in DOMAIN line : line[i] = "\n"

\* C13: each row with a cell is one output line of its cells' texts joined by
\* ' | ', a row without cells gives no line, and the texts of the block
\* elements outside tables follow the tables' lines.
C13_OneLinePerRow ==
    HtCalled /\ htTextParts # <<>> =>
        LET tables == HtTables
            lines == [i \in DOMAIN tables |-> HtTableLines(tables[i].node)]
            tableParts == Concat([i \in DOMAIN tables |->
                IF lines[i] # <<>> THEN <<Join(<<"\n">>, lines[i]), <<"\n">>>> ELSE <<>>])
        IN /\ HtOutput = Join(<<"\n">>, tableParts \o HtBlockTexts)
           /\ \A i \in DOMAIN lines : \A j \in DOMAIN lines[i] :
                 ~HtHasNewline(lines[i][j])

RECURSIVE HtVisibleStrings(_)
\* the strings of the document that are not inside a script or a style
HtVisibleStrings(node) ==
    IF IsText(node) THEN <<node.text>>
    ELSE IF node.tag \in {"script", "style"} THEN <<>>
    ELSE Concat([i \in DOMAIN node.kids |-> HtVisibleStrings(node.kids[i])])

\* all visible text: the visible strings, stripped, joined by single spaces
HtVisibleText ==
    LET strings == HtVisibleStrings(htDoc)
        stripped == [i \in DOMAIN strings |-> Strip(strings[i])]
    IN Join(<<" ">>, SelectSeq(stripped, LAMBDA t : t # <<>>))

\* some table row has a cell
HtSomeRowLine ==
    LET tables == HtTables
        rows == Concat([i \in DOMAIN tables |-> HtRows(tables[i].node)])
    IN \E j \in DOMAIN rows : HtCells(rows[j]) # <<>>

\* C14: the whole-document text is returned exactly when no table row has a
\* cell and no block element outside tables has text; it is then all the
\* visible text; and no script or style text is ever in the output.
C14_FallbackAndNoScript ==
    HtCalled =>
        /\ htTextParts = <<>> <=> ~HtSomeRowLine /\ HtBlockTexts = <<>>
        /\ htTextParts = <<>> => HtOutput = HtVisibleText
        /\ htTextParts # <<>> => HtOutput = Join(<<"\n">>, htTextParts)
        /\ \A i \in DOMAIN HtOutput : HtOutput[i] # "s"

C14_Witness ==
    /\ HtCalled
    /\ htTextParts = <<>>
    /\ HtOutput = <<"b">>
    /\ \E i \in DOMAIN htDoc.kids : htDoc.kids[i].tag = "script"
    /\ \E i \in DOMAIN htDoc.kids : htDoc.kids[i].tag = "table"

----------------------------------------------------------------------------
(* The construction of a FinancialMetrics record from the items of a dict *)

\* the value of a key the dict does not have
Absent == [t |-> "absent"]

\* a dict with str keys: the keys are those with a value
Dict(items) ==
    [t |-> "dict",
     v |-> [k \in {k \in DOMAIN items : items[k] # Absent} |-> items[k]]]

DictGet(d, key) == IF key \in DOMAIN d THEN d[key] ELSE Absent

\* int(s) for a str s: an optional sign, then digits, single underscores
\* allowed between digits
IntOfStr(s) ==
    LET t == Strip(s)
        signed == t # <<>> /\ Head(t) \in {"+", "-"}
        body == IF signed THEN Tail(t) ELSE t
        grouped == /\ body # <<>>
                   /\ Head(body) # "_" /\ body[Len(body)] # "_"
                   /\ \A i \in 1..(Len(body) - 1) : ~(body[i] = "_" /\ body[i + 1] = "_")
        digits == Replace(body, "_", <<>>)
        n == DigitsToNat(digits)
    IN IF grouped /\ AllDigits(digits)
       THEN PyInt(IF signed /\ Head(t) = "-" THEN -n ELSE n)
       ELSE Raised("ValueError")

\* int(v) for an int or a float v: truncation towards zero
IntOfNumber(v) ==
    CASE v.t = "int" -> v
      [] v.t = "float" /\ v.k = "fin" ->
            PyInt((IF v.m < 0 THEN -1 ELSE 1) * (AbsInt(v.m) \div Pow10(v.e)))
      [] v.t = "float" /\ v.k = "nan" -> Raised("ValueError")
      [] v.t = "float" /\ v.k = "inf" -> Raised("OverflowError")

\* FinancialMetrics.validate_cik(v)
ValidateCik(v) ==
    IF v = None \/ v = Str(<<>>) THEN None
    ELSE IF v.t \in {"int", "float"}
    THEN LET n == IntOfNumber(v)
         IN IF IsRaised(n) THEN n ELSE Str(ZFill(IntToStr(n.v), CikWidth))
    ELSE IF v.t = "str"
    THEN LET cik_clean == Strip(Replace(Replace(v.v, "-", <<>>), " ", <<>>))
             cik_int == IntOfStr(cik_clean)
         IN IF cik_clean = <<>> THEN None
            ELSE IF IsRaised(cik_int) THEN Str(Strip(v.v))
            ELSE Str(ZFill(IntToStr(cik_int.v), CikWidth))
    ELSE Str(PyStr(v))

\* the validation of fiscal_year: Optional[int], a str of an int is converted
ValidateFiscalYear(v) ==
    CASE v = None -> None
      [] v.t = "int" -> v
      [] v.t = "str" ->
            IF IsRaised(IntOfStr(v.v)) THEN Raised("ValidationError") ELSE IntOfStr(v.v)
      [] OTHER -> Raised("ValidationError")

\* the validation of company_ticker: a required str
ValidateTicker(v) ==
    IF v # Absent /\ v.t = "str" THEN v ELSE Raised("ValidationError")

\* the validator of an optional field
ValidateField(key, v) ==
    CASE key = "fiscal_year" -> ValidateFiscalYear(v)
      [] key = "cik" -> ValidateCik(v)
      [] OTHER -> ValidateNumeric(v)

\* a field that has a default: the validators do not run on the default
OptionalField(d, key) ==
    IF DictGet(d, key) = Absent THEN None ELSE ValidateField(key, DictGet(d, key))

\* the fields of FinancialMetrics after their validators, in the order of
\* the class: each the value kept, or the exception its validator raised
Fields(d) ==
    <<ValidateTicker(DictGet(d, "company_ticker")), OptionalField(d, "fiscal_year"),
      OptionalField(d, "cik"), OptionalField(d, "total_revenue"),
      OptionalField(d, "net_income")>>

\* the end of the construction: the record, or the exception raised.
\* An exception other than ValueError raised by a validator leaves as it is;
\* the others are collected in one ValidationError.
Collect(fields) ==
    LET raised == SelectSeq(fields, IsRaised)
        other == SelectSeq(raised, LAMBDA x : x.exc \notin {"ValueError", "ValidationError"})
    IN IF other # <<>> THEN Raised(other[1].exc)
       ELSE IF raised # <<>> THEN Raised("ValidationError")
       ELSE Returned([company_ticker |-> fields[1].v, fiscal_year |-> fields[2],
                      cik |-> fields[3], total_revenue |-> fields[4],
                      net_income |-> fields[5]])

\* FinancialMetrics built from the items of a dict d
Construct(d) == Collect(Fields(d))

----------------------------------------------------------------------------
(* BaselineExtractor.extract and RefinedExtractor.extract *)

\* an instance of FinancialMetrics as a response
Instance(record) == [t |-> "FinancialMetrics", v |-> record]

\* an object with an attribute response
Wrapper(inner) == [t |-> "Response", response |-> inner]

JsonEmptyObject == <<"{", "}">>
JsonObject ==
    <<"{", "\"", "c", "i", "k", "\"", ":", " ", "\"", "3", "2", "0", "1", "9", "3", "\"", "}">>
JsonTickerObject ==
    <<"{", "\"", "c", "o", "m", "p", "a", "n", "y", "_", "t", "i", "c", "k", "e", "r",
      "\"", ":", " ", "\"", "Z", "Z", "Z", "Z", "\"", ",", " ",
      "\"", "n", "e", "t", "_", "i", "n", "c", "o", "m", "e", "\"", ":", " ", "n", "u", "l", "l", "}">>
JsonNull == <<"n", "u", "l", "l">>
JsonArray == <<"[", "]">>
NotJson == <<"N", "/", "A">>

\* json.loads(s), on the texts a response carries here
JsonLoads(s) ==
    CASE s = JsonEmptyObject -> Dict([k \in {} |-> Absent])
      [] s = JsonObject -> Dict([cik |-> Str(Cik320193)])
      [] s = JsonTickerObject -> Dict([company_ticker |-> Str(ZZZZ), net_income |-> None])
      [] s = JsonNull -> None
      [] s = JsonArray -> [t |-> "list"]
      [] OTHER -> Raised("JSONDecodeError")

\* FinancialMetrics built from data, which must be a mapping
ConstructFrom(data) ==
    IF IsRaised(data) THEN data
    ELSE IF data.t = "dict" THEN Construct(data.v)
    ELSE Raised("TypeError")

\* FinancialMetrics(company_ticker=ticker)
EmptyMetrics(ticker) == Construct([company_ticker |-> Str(ticker)])

\* the bare except of the try block: whatever was raised in it gives the
\* empty record
ExceptEmpty(tried, ticker) == IF IsRaised(tried) THEN EmptyMetrics(ticker) ELSE tried

\* the try block for a wrapped response that is not a FinancialMetrics
ParseWrapped(inner, ticker) ==
    ExceptEmpty(CASE inner.t = "dict" -> Construct(inner.v)
                  [] inner.t = "str" -> ConstructFrom(JsonLoads(inner.v))
                  [] OTHER -> EmptyMetrics(ticker),
                ticker)

\* the ticker left as the response had it
SetTickerKept(metrics, ticker) == metrics

\* metrics.company_ticker = ticker
SetTicker(metrics, ticker) == [metrics EXCEPT !.company_ticker = ticker]

\* the end of extract: the ticker is set on the metrics and they are
\* returned, unless the parsing raised
ReturnMetrics(metrics, ticker) ==
    IF IsRaised(metrics) THEN metrics ELSE Returned(SetTicker(metrics.value, ticker))

\* the parsing of the response, up to the return
ParseResponse(response, ticker) ==
    ReturnMetrics(CASE response.t = "FinancialMetrics" -> Returned(response.v)
                    [] response.t = "Response" ->
                          IF response.response.t = "FinancialMetrics"
                          THEN Returned(response.response.v)
                          ELSE ParseWrapped(response.response, ticker)
                    [] response.t = "dict" -> Construct(response.v)
                    [] OTHER -> EmptyMetrics(ticker),
                  ticker)

\* where the call goes when query_engine.query raised, retrying
AfterQueryRaisedRetry(cls) == "ready"

\* where the call goes when query_engine.query raised: the baseline logs and
\* re-raises, the refined extractor has no handler
AfterQueryRaised(cls) == "raised"

----------------------------------------------------------------------------
(* The calls of extract *)

MaxQueries == 3

Tickers == {AAPL, ZZZZ}

\* what the text extraction, the parser or the index construction raise
PrepareErrors == {"ImportError", "OSError"}

\* what the LLM service raises
QueryErrors == {"TimeoutError"}

ResponseTickers == {Absent, Str(AAPL), Str(ZZZZ), PyInt(1)}
ResponseYears == {Absent, PyInt(2023), Str(<<"F", "Y">>)}
ResponseCiks == {Absent, Str(CikDashed), NaN}
ResponseRevenues ==
    {Absent, None, Fin(15, 1), Str(<<"(", "1", ",", "0", "0", "0", ")">>),
     Str(<<"N", "/", "A">>), [t |-> "list"]}

ResponseDicts ==
    {Dict([company_ticker |-> tk, fiscal_year |-> fy, cik |-> c,
           total_revenue |-> r, net_income |-> Absent]) :
        tk \in ResponseTickers, fy \in ResponseYears, c \in ResponseCiks,
        r \in ResponseRevenues}

ResponseInstances ==
    {Instance(FinancialMetrics(tk, c, r, None)) :
        tk \in Tickers, c \in {None, Str(CikPadded)}, r \in {None, Fin(15, 1)}}

ResponseTexts ==
    {Str(s) : s \in {JsonEmptyObject, JsonObject, JsonTickerObject, JsonNull,
                     JsonArray, NotJson}}

Responses ==
    ResponseInstances \cup ResponseDicts \cup {None} \cup ResponseTexts
        \cup {Wrapper(inner) : inner \in ResponseInstances \cup ResponseDicts
                                            \cup ResponseTexts \cup {None}}

InitExtract ==
    /\ exCls \in {"BaselineExtractor", "RefinedExtractor"}
    /\ exParser \in BOOLEAN
    /\ exTicker \in Tickers
    /\ exPc = "start"
    /\ exQueries = 0
    /\ exResponse = Pending
    /\ exResult = Pending
    /\ evExtracted = None
    /\ evGroundTruth = None
    /\ evTolerance = None
    /\ evResult = Pending
    /\ vnInput = None
    /\ vnResult = Pending
    /\ ctText = None
    /\ ctChunkSize = None
    /\ ctResult = Pending
    /\ htDoc = None
    /\ htTextParts = None
    /\ htResult = Pending
    /\ mnDriver = None
    /\ mnArgs = None
    /\ mnGroundTruth = None
    /\ mnFound = <<>>
    /\ mnPc = "idle"
    /\ mnDocs = <<>>
    /\ mnIndex = 0
    /\ mnTodo = <<>>
    /\ mnResults = <<>>
    /\ mnAttempts = <<>>
    /\ mnConstructed = 0
    /\ mnWrites = 0
    /\ mnExit = None
    /\ mnEvaluation = <<>>
    /\ rtRecord = None
    /\ rtPc = "idle"
    /\ rtDump = Pending
    /\ rtFile = Pending
    /\ rtRebuilt = Pending
    /\ fsDocuments = None
    /\ fsFiltered = Pending
    /\ fsIndexed = Pending
    /\ cmPc = "idle"
    /\ cmIndex = 0
    /\ cmElapsed = 0
    /\ cmRuns = <<>>
    /\ cmResults = <<>>
    /\ cmCompared = None
    /\ dlPc = "idle"
    /\ dlTickerIndex = 0
    /\ dlPdfsCreated = 0
    /\ dlFilingDirs = 0
    /\ dlAttempts = <<>>
    /\ ftPc = "idle"
    /\ ftExists = FALSE
    /\ ftCsv = <<>>
    /\ ftFrame = <<>>
    /\ ftIndex = 0
    /\ ftUpdated = 0
    /\ ftWritten = {}
    /\ ftSaved = Pending

\* RefinedExtractor.extract without a parser: a BaselineExtractor is
\* constructed and its extract called
ExtractFallback ==
    /\ exPc = "start" /\ exCls = "RefinedExtractor" /\ ~exParser
    /\ \/ exPc' = "baseline" /\ UNCHANGED exResult
       \/ exPc' = "raised" /\ exResult' \in {Raised("ValueError"), Raised("ImportError")}
    /\ UNCHANGED <<exCls, exParser, exTicker, exQueries, exResponse>>
    /\ UNCHANGED <<evalVars, normVars, chunkVars, htmlVars, mainVars, roundVars, filterVars, compareVars, downloadVars, featureVars>>

\* the text extraction and chunking (baseline) or the parsing and filtering
\* (refined), then the index and the query engine
ExtractPrepare ==
    /\ \/ exPc = "start" /\ exCls = "BaselineExtractor"
       \/ exPc = "start" /\ exCls = "RefinedExtractor" /\ exParser
       \/ exPc = "baseline"
    /\ \/ exPc' = "ready" /\ UNCHANGED exResult
       \/ exPc' = "raised" /\ exResult' \in {Raised(e) : e \in PrepareErrors}
    /\ UNCHANGED <<exCls, exParser, exTicker, exQueries, exResponse>>
    /\ UNCHANGED <<evalVars, normVars, chunkVars, htmlVars, mainVars, roundVars, filterVars, compareVars, downloadVars, featureVars>>

\* response = query_engine.query(query)
ExtractQuery ==
    /\ exPc = "ready" /\ exQueries < MaxQueries
    /\ exQueries' = exQueries + 1
    /\ \/ /\ exResponse' \in Responses
          /\ exPc' = "parse"
          /\ UNCHANGED exResult
       \/ /\ exResponse' \in {Raised(e) : e \in QueryErrors}
          /\ exPc' = AfterQueryRaised(exCls)
          /\ exResult' = IF exPc' = "raised" THEN exResponse' ELSE exResult
    /\ UNCHANGED <<exCls, exParser, exTicker>>
    /\ UNCHANGED <<evalVars, normVars, chunkVars, htmlVars, mainVars, roundVars, filterVars, compareVars, downloadVars, featureVars>>

\* the parsing of the response, the ticker assignment and the return
ExtractParse ==
    /\ exPc = "parse"
    /\ exResult' = ParseResponse(exResponse, exTicker)
    /\ exPc' = IF IsRaised(exResult') THEN "raised" ELSE "returned"
    /\ UNCHANGED <<exCls, exParser, exTicker, exQueries, exResponse>>
    /\ UNCHANGED <<evalVars, normVars, chunkVars, htmlVars, mainVars, roundVars, filterVars, compareVars, downloadVars, featureVars>>

NextExtract == ExtractFallback \/ ExtractPrepare \/ ExtractQuery \/ ExtractParse

SpecExtract == InitExtract /\ [][NextExtract]_vars

----------------------------------------------------------------------------
(* Properties of extract, under SpecExtract *)

ExReturned == exPc = "returned"

ExEnded == exPc \in {"returned", "raised"}

\* query_engine.query returned a response, and extract has ended
ExAnswered == ExEnded /\ exResponse # Pending /\ ~IsRaised(exResponse)

OptionalFields == {"fiscal_year", "cik", "total_revenue", "net_income"}

\* the value the response carries for a field, Absent if it carries none
ExSupplied(field) ==
    LET inner == IF exResponse.t = "Response" THEN exResponse.response ELSE exResponse
        data == IF exResponse.t = "Response" /\ inner.t = "str"
                THEN JsonLoads(inner.v) ELSE inner
    IN CASE data.t = "FinancialMetrics" -> data.v[field]
         [] data.t = "dict" -> DictGet(data.v, field)
         [] OTHER -> Absent

\* the field's value after its normalization
ExNormalized(field, v) ==
    CASE field = "fiscal_year" -> ValidateFiscalYear(v)
      [] field = "cik" -> ValidateCik(v)
      [] OTHER -> ValidateNumeric(v)

\* the response carries a value for the field, and its normalization gives a value
ExSuppliedValid(field) ==
    /\ ExSupplied(field) \notin {Absent, None}
    /\ ~IsRaised(ExNormalized(field, ExSupplied(field)))
    /\ ExNormalized(field, ExSupplied(field)) # None

\* C15: a record that extract returns has the caller's ticker, whatever the
\* response was.
C15_TickerIsCallers ==
    ExReturned => exResult.value.company_ticker = exTicker

C15_Witness ==
    /\ ExReturned
    /\ exResponse.t = "dict"
    /\ DictGet(exResponse.v, "company_ticker") = Str(ZZZZ)
    /\ exTicker = AAPL
    /\ exCls = "RefinedExtractor" /\ ~exParser

\* C16: whatever response the query returned, extract returns a record, in
\* which a field that the response does not carry, or whose value fails its
\* normalization, is None.
C16_AbsentNeverRaises ==
    ExAnswered =>
        /\ exResult.t = "returned"
        /\ \A f \in OptionalFields :
              ~ExSuppliedValid(f) => exResult.value[f] = None

\* C17, as stated: every call of extract that ends has issued exactly one
\* query, and a query that raised ends the call with that exception.
C17_ExactlyOneQuery ==
    /\ ExEnded => exQueries = 1
    /\ IsRaised(exResponse) => exPc = "raised" /\ exResult = exResponse

\* C17, amended: a call issues at most one query, exactly one once the text
\* was read and the index built; it ends without a query only by an exception
\* raised before the query; a query that raised is not repeated and its
\* exception is the call's.
C17_AtMostOneQuery ==
    /\ exQueries <= 1
    /\ exPc \in {"parse", "returned"} => exQueries = 1
    /\ ExEnded /\ exQueries = 0 => IsRaised(exResult) /\ exResponse = Pending
    /\ IsRaised(exResponse) => exPc = "raised" /\ exResult = exResponse

C17_Witness ==
    /\ exPc = "raised"
    /\ exQueries = 1
    /\ exResponse = Raised("TimeoutError")
    /\ exCls = "RefinedExtractor" /\ ~exParser

----------------------------------------------------------------------------
(* The round trip of a FinancialMetrics record: model_dump, the output JSON,
   and the record rebuilt from it *)

FieldNames == {"company_ticker", "fiscal_year", "cik", "total_revenue", "net_income"}

\* record.model_dump(): the dict of the five fields
ModelDump(record) ==
    Dict([k \in FieldNames |->
            IF k = "company_ticker" THEN Str(record.company_ticker) ELSE record[k]])

\* json.dump of one value: a str quoted, a float by its repr, nan and the
\* infinities by their JavaScript names
JsonDumpValue(x) ==
    CASE x.t = "NoneType" -> <<"n", "u", "l", "l">>
      [] x.t = "str" -> <<"\"">> \o x.v \o <<"\"">>
      [] x.t = "int" -> IntToStr(x.v)
      [] x.t = "float" /\ x.k = "nan" -> <<"N", "a", "N">>
      [] x.t = "float" /\ x.k = "inf" ->
            (IF x.neg THEN <<"-">> ELSE <<>>) \o <<"I", "n", "f", "i", "n", "i", "t", "y">>
      [] x.t = "float" /\ x.k = "fin" -> FloatToStr(x)

\* json.load of one value: a number without fraction is an int
JsonLoadValue(s) ==
    IF s = <<"n", "u", "l", "l">> THEN None
    ELSE IF Head(s) = "\"" THEN Str(SubSeq(s, 2, Len(s) - 1))
    ELSE IF s = <<"N", "a", "N">> THEN NaN
    ELSE IF s = <<"I", "n", "f", "i", "n", "i", "t", "y">> THEN Inf(FALSE)
    ELSE IF s = <<"-", "I", "n", "f", "i", "n", "i", "t", "y">> THEN Inf(TRUE)
    ELSE IF Positions(s, ".") # {} THEN ParseFloat(s)
    ELSE IntOfStr(s)

----------------------------------------------------------------------------
(* The batch drivers: extract_10k_data.main, extract_from_html.main and     *)
(* run_complete_tests.main                                                  *)

Upper(c) ==
    CASE c = "a" -> "A" [] c = "p" -> "P" [] c = "l" -> "L" [] c = "m" -> "M"
      [] c = "s" -> "S" [] c = "f" -> "F" [] c = "t" -> "T" [] c = "k" -> "K"
      [] c = "q" -> "Q" [] OTHER -> c

\* s.upper()
UpperStr(s) == [i \in DOMAIN s |-> Upper(s[i])]

RECURSIVE SplitFirst(_, _)
\* s.split(sep)[0]: what precedes the first sep
SplitFirst(s, sep) ==
    IF s = <<>> \/ Head(s) = sep THEN <<>> ELSE <<Head(s)>> \o SplitFirst(Tail(s), sep)

\* the characters of the names, in code point order
CharOrder ==
    <<" ", "A", "F", "K", "L", "M", "P", "Q", "S", "T", "_", "a", "f", "k", "l", "m", "p",
      "s", "t">>

CharRank(c) == CHOOSE i \in DOMAIN CharOrder : CharOrder[i] = c

RECURSIVE StrLess(_, _)
\* a < b for two str
StrLess(a, b) ==
    IF b = <<>> THEN FALSE
    ELSE IF a = <<>> THEN TRUE
    ELSE IF Head(a) # Head(b) THEN CharRank(Head(a)) < CharRank(Head(b))
    ELSE StrLess(Tail(a), Tail(b))

\* sorted(S) for a set of str
Sorted(S) ==
    CHOOSE q \in [1..Cardinality(S) -> S] :
        \A i, j \in DOMAIN q : i < j => StrLess(q[i], q[j])

\* the key of a document in results: the first token of the file stem, the
\* directory name, or the stripped ticker cell
TickerOf(driver, doc) ==
    CASE driver = "extract_10k_data" -> SplitFirst(doc.name, "_")
      [] driver = "extract_from_html" -> doc.name
      [] driver = "run_complete_tests" -> Strip(doc.name)

\* set(gt_df['ticker'].str.strip().str.upper())
TargetTickers(ground_truth) ==
    IF ground_truth = None THEN {}
    ELSE {UpperStr(Strip(cell)) : cell \in ground_truth.v}

\* the configuration check that lets every run pass
ConfigAlwaysOk(args) == TRUE

\* the backend selected is usable: a key for OpenAI, the package for Ollama
ConfigOk(args) ==
    IF ~args.use_ollama THEN args.openai_key ELSE args.ollama_available

\* pdf_files without the filter: every file found
PdfFilesAll(found, ground_truth) == found

\* pdf_files: the files whose first stem token, upper-cased, is a ground-truth
\* ticker; all files when there is no ground-truth ticker
PdfFiles(found, ground_truth) ==
    IF TargetTickers(ground_truth) # {}
    THEN SelectSeq(found, LAMBDA doc :
            UpperStr(SplitFirst(doc.name, "_")) \in TargetTickers(ground_truth))
    ELSE found

\* sorted(html_files.items()): one document for each directory name
HtmlFiles(found) ==
    LET names == Sorted({found[i].name : i \in DOMAIN found})
    IN [i \in DOMAIN names |-> [name |-> names[i], present |-> TRUE]]

\* the rows with a ticker and an existing html file
Rows(found) ==
    SelectSeq(found, LAMBDA doc : Strip(doc.name) # <<>> /\ doc.present)

\* the strategies run for each document, in order
Strategies(driver, mode) ==
    CASE driver = "extract_from_html" -> <<"html">>
      [] driver = "run_complete_tests" -> <<"baseline", "refined">>
      [] driver = "extract_10k_data" ->
            (IF mode \in {"baseline", "both"} THEN <<"baseline">> ELSE <<>>)
                \o (IF mode \in {"refined", "both"} THEN <<"refined">> ELSE <<>>)

\* the extractor is constructed inside the try block of each attempt
ConstructsInTry(driver) == driver # "extract_from_html"

\* the evaluation is inside the try block of each attempt
EvaluatesInTry(driver) == driver = "run_complete_tests"

\* results[ticker] = {} (with the ticker and the file for run_complete_tests)
NewEntry(driver, doc) ==
    IF driver = "run_complete_tests"
    THEN [k \in {"ticker", "html_file"} |->
            IF k = "ticker" THEN Str(Strip(doc.name)) ELSE Str(doc.name)]
    ELSE <<>>

\* the entry of a strategy that raised: {'error': str(e)}
ErrorEntry(exc) == [error |-> exc]

\* d[key] = value
SetItem(d, key, value) == (key :> value) @@ d

\* after an exception, the strategies of the document that are given up
RemainingAfterRaiseNone(todo) == <<>>

\* after an exception was caught and recorded: on to the next strategy
RemainingAfterRaise(todo) == Tail(todo)

\* the handler does not catch the exception
CatchesNothing(exc) == FALSE

\* except Exception catches what the extractors and the services raise
Catches(exc) == TRUE

\* Evaluator.ground_truth of main: the rows indexed by the ticker cells as
\* they are written in the file (the other cells of the rows are left empty)
GroundTruthTable(ground_truth) ==
    [cell \in ground_truth.v |-> [cik |-> NaN, total_revenue |-> NaN, net_income |-> NaN]]

\* the strategies of an entry of results that main evaluates
Evaluable(ticker_results) ==
    {s \in DOMAIN ticker_results \cap {"baseline", "refined"} :
        "error" \notin DOMAIN ticker_results[s]}

\* evaluation_results: for each key of results, what evaluate returns for
\* the record rebuilt from each dump that is not an error
EvaluationResults(results, ground_truth) ==
    [ticker \in DOMAIN results |->
        [s \in Evaluable(results[ticker]) |->
            Evaluate(GroundTruthTable(ground_truth),
                     ConstructFrom(ModelDump(results[ticker][s])).value,
                     DefaultTolerance).value]]

----------------------------------------------------------------------------
(* The runs of the batch drivers *)

MaxDocs == 2

Drivers == {"extract_10k_data", "extract_from_html", "run_complete_tests"}

\* file stems, directory names (one per filing found), and ticker cells
DocNames(driver) ==
    CASE driver = "extract_10k_data" ->
            {<<"A", "A", "P", "L", "_", "K">>, <<"A", "A", "P", "L", "_", "Q">>,
             <<"m", "s", "f", "t", "_", "K">>}
      [] driver = "extract_from_html" -> {AAPL, <<"M", "S", "F", "T">>}
      [] driver = "run_complete_tests" -> {AAPL, <<" ", "M", "S", "F", "T">>}

GroundTruths ==
    {None, [t |-> "csv", v |-> {}], [t |-> "csv", v |-> {AAPL}],
     [t |-> "csv", v |-> {<<" ", "a", "a", "p", "l">>, <<"M", "S", "F", "T">>}]}

\* what the constructor of an extractor raises, and what extract raises
ConstructErrors == {"ValueError"}
ExtractErrors == {"TimeoutError"}

\* what the evaluation raises (the division by a zero ground truth)
EvaluateErrors == {"ZeroDivisionError"}

\* a listing of up to MaxDocs documents; the files of a directory are distinct
Listings(driver) ==
    {q \in UNION {[1..n -> [name : DocNames(driver), present : BOOLEAN]] :
                    n \in 0..MaxDocs} :
        /\ driver # "run_complete_tests" => \A i \in DOMAIN q : q[i].present
        /\ driver = "extract_10k_data" =>
              \A i, j \in DOMAIN q : i # j => q[i].name # q[j].name}

InitMain ==
    /\ mnDriver \in Drivers
    /\ mnArgs \in [mode : {"baseline", "refined", "both"}, evaluate : BOOLEAN,
                   use_ollama : BOOLEAN, openai_key : BOOLEAN,
                   ollama_available : BOOLEAN]
    /\ mnArgs.use_ollama => mnArgs.openai_key
    /\ ~mnArgs.use_ollama => mnArgs.ollama_available
    /\ mnDriver # "extract_10k_data" =>
          mnArgs = [mode |-> "both", evaluate |-> FALSE, use_ollama |-> TRUE,
                    openai_key |-> TRUE, ollama_available |-> TRUE]
    /\ mnGroundTruth \in GroundTruths
    /\ mnDriver = "extract_from_html" => mnGroundTruth = None
    /\ mnDriver = "run_complete_tests" =>
          mnGroundTruth \in {None, [t |-> "csv", v |-> {AAPL}]}
    /\ mnFound \in Listings(mnDriver)
    /\ mnPc = IF mnDriver = "extract_10k_data" THEN "config" ELSE "discover"
    /\ mnDocs = <<>>
    /\ mnIndex = 0
    /\ mnTodo = <<>>
    /\ mnResults = <<>>
    /\ mnAttempts = <<>>
    /\ mnConstructed = 0
    /\ mnWrites = 0
    /\ mnExit = None
    /\ mnEvaluation = <<>>
    /\ evExtracted = None
    /\ evGroundTruth = None
    /\ evTolerance = None
    /\ evResult = Pending
    /\ vnInput = None
    /\ vnResult = Pending
    /\ ctText = None
    /\ ctChunkSize = None
    /\ ctResult = Pending
    /\ htDoc = None
    /\ htTextParts = None
    /\ htResult = Pending
    /\ exCls = None
    /\ exParser = None
    /\ exTicker = None
    /\ exPc = "idle"
    /\ exQueries = 0
    /\ exResponse = Pending
    /\ exResult = Pending
    /\ rtRecord = None
    /\ rtPc = "idle"
    /\ rtDump = Pending
    /\ rtFile = Pending
    /\ rtRebuilt = Pending
    /\ fsDocuments = None
    /\ fsFiltered = Pending
    /\ fsIndexed = Pending
    /\ cmPc = "idle"
    /\ cmIndex = 0
    /\ cmElapsed = 0
    /\ cmRuns = <<>>
    /\ cmResults = <<>>
    /\ cmCompared = None
    /\ dlPc = "idle"
    /\ dlTickerIndex = 0
    /\ dlPdfsCreated = 0
    /\ dlFilingDirs = 0
    /\ dlAttempts = <<>>
    /\ ftPc = "idle"
    /\ ftExists = FALSE
    /\ ftCsv = <<>>
    /\ ftFrame = <<>>
    /\ ftIndex = 0
    /\ ftUpdated = 0
    /\ ftWritten = {}
    /\ ftSaved = Pending

OtherVars == <<evalVars, normVars, chunkVars, htmlVars, extractVars, roundVars, filterVars, compareVars, downloadVars, featureVars>>

\* extract_10k_data.main: the check of the keys and of the Ollama package
MainConfig ==
    /\ mnPc = "config"
    /\ IF ConfigOk(mnArgs)
       THEN mnPc' = "discover" /\ UNCHANGED mnExit
       ELSE mnPc' = "exited" /\ mnExit' = PyInt(1)
    /\ UNCHANGED <<mnDriver, mnArgs, mnGroundTruth, mnFound, mnDocs, mnIndex, mnTodo,
                   mnResults, mnAttempts, mnConstructed, mnWrites, mnEvaluation>>
    /\ UNCHANGED OtherVars

\* the documents to process are determined; results = {}
MainDiscover ==
    /\ mnPc = "discover"
    /\ \/ /\ mnDriver = "extract_10k_data"
          /\ mnDocs' = PdfFiles(mnFound, mnGroundTruth)
          /\ IF mnDocs' = <<>>
             THEN mnPc' = "exited" /\ mnExit' = PyInt(1)
             ELSE mnPc' = "loop" /\ UNCHANGED mnExit
          /\ UNCHANGED mnConstructed
       \/ /\ mnDriver = "extract_from_html"
          /\ mnDocs' = HtmlFiles(mnFound)
          /\ IF mnDocs' = <<>>
             THEN /\ mnPc' = "exited" /\ mnExit' = PyInt(1)
                  /\ UNCHANGED mnConstructed
             ELSE /\ mnConstructed' = mnConstructed + 1
                  /\ \/ mnPc' = "loop" /\ UNCHANGED mnExit
                     \/ mnPc' = "raised" /\ mnExit' = PyInt(1)
       \/ /\ mnDriver = "run_complete_tests"
          /\ IF mnGroundTruth = None
             THEN /\ mnPc' = "exited" /\ mnExit' = PyInt(0)
                  /\ UNCHANGED mnDocs
             ELSE /\ mnPc' = "loop" /\ mnDocs' = Rows(mnFound)
                  /\ UNCHANGED mnExit
          /\ UNCHANGED mnConstructed
    /\ UNCHANGED <<mnDriver, mnArgs, mnGroundTruth, mnFound, mnIndex, mnTodo,
                   mnResults, mnAttempts, mnWrites, mnEvaluation>>
    /\ UNCHANGED OtherVars

\* the loop takes the next document: its key, and a fresh results[key]
MainBeginDocument ==
    /\ mnPc = "loop" /\ mnTodo = <<>> /\ mnIndex < Len(mnDocs)
    /\ mnIndex' = mnIndex + 1
    /\ mnResults' = SetItem(mnResults, TickerOf(mnDriver, mnDocs[mnIndex']),
                            NewEntry(mnDriver, mnDocs[mnIndex']))
    /\ mnTodo' = Strategies(mnDriver, mnArgs.mode)
    /\ UNCHANGED <<mnDriver, mnArgs, mnGroundTruth, mnFound, mnPc, mnDocs,
                   mnAttempts, mnConstructed, mnWrites, mnExit, mnEvaluation>>
    /\ UNCHANGED OtherVars

\* the record extract returns for a document
Extracted(ticker) == FinancialMetrics(ticker, None, Fin(100, 0), None)

\* what one attempt can do: the constructor raises, extract raises, extract
\* returns, or (with the evaluation in the try block) the evaluation raises
Outcomes(driver) ==
    {[raised |-> TRUE, exc |-> e, at |-> "extract"] : e \in ExtractErrors}
        \cup {[raised |-> FALSE, exc |-> "", at |-> ""]}
        \cup (IF ConstructsInTry(driver)
              THEN {[raised |-> TRUE, exc |-> e, at |-> "construct"] : e \in ConstructErrors}
              ELSE {})
        \cup (IF EvaluatesInTry(driver)
              THEN {[raised |-> FALSE, exc |-> e, at |-> "evaluate"] : e \in EvaluateErrors}
              ELSE {})

\* one strategy for the current document: the try block and its handler
MainAttempt ==
    /\ mnPc = "loop" /\ mnTodo # <<>>
    /\ \E o \in Outcomes(mnDriver) :
        LET strategy == Head(mnTodo)
            ticker == TickerOf(mnDriver, mnDocs[mnIndex])
            exc == o.exc
            failed == exc # ""
            stored == SetItem(mnResults[ticker], strategy, Extracted(ticker))
            evaluated == SetItem(stored, strategy \o "_evaluation", [accuracy |-> Fin(0, 0)])
            entry == IF failed THEN SetItem(IF o.at = "evaluate" THEN stored ELSE mnResults[ticker],
                                            strategy, ErrorEntry(exc))
                     ELSE IF EvaluatesInTry(mnDriver) THEN evaluated
                     ELSE stored
        IN /\ mnAttempts' = Append(mnAttempts,
                                   [doc |-> mnIndex, strategy |-> strategy,
                                    raised |-> o.raised, exc |-> exc])
           /\ mnConstructed' = mnConstructed + (IF ConstructsInTry(mnDriver) THEN 1 ELSE 0)
           /\ IF failed /\ ~Catches(exc)
              THEN /\ mnPc' = "raised" /\ mnExit' = PyInt(1)
                   /\ UNCHANGED <<mnResults, mnTodo>>
              ELSE /\ mnResults' = SetItem(mnResults, ticker, entry)
                   /\ mnTodo' = IF failed THEN RemainingAfterRaise(mnTodo) ELSE Tail(mnTodo)
                   /\ UNCHANGED <<mnPc, mnExit>>
    /\ UNCHANGED <<mnDriver, mnArgs, mnGroundTruth, mnFound, mnDocs, mnIndex, mnWrites,
                   mnEvaluation>>
    /\ UNCHANGED OtherVars

\* after the loop: json.dump(results, f)
MainSave ==
    /\ mnPc = "loop" /\ mnTodo = <<>> /\ mnIndex = Len(mnDocs)
    /\ mnWrites' = mnWrites + 1
    /\ mnPc' = IF mnDriver = "extract_10k_data" THEN "evaluate" ELSE "summary"
    /\ UNCHANGED <<mnDriver, mnArgs, mnGroundTruth, mnFound, mnDocs, mnIndex, mnTodo,
                   mnResults, mnAttempts, mnConstructed, mnExit, mnEvaluation>>
    /\ UNCHANGED OtherVars

\* extract_10k_data.main: the evaluation, when asked for and the ground truth
\* exists; it ends the run, by a return or by an exception of the evaluation
MainEvaluate ==
    /\ mnPc = "evaluate"
    /\ IF mnArgs.evaluate /\ mnGroundTruth # None
       THEN \/ /\ mnPc' = "exited" /\ mnExit' = PyInt(0)
               /\ mnEvaluation' = EvaluationResults(mnResults, mnGroundTruth)
            \/ mnPc' = "raised" /\ mnExit' = PyInt(1) /\ UNCHANGED mnEvaluation
       ELSE mnPc' = "exited" /\ mnExit' = PyInt(0) /\ UNCHANGED mnEvaluation
    /\ UNCHANGED <<mnDriver, mnArgs, mnGroundTruth, mnFound, mnDocs, mnIndex, mnTodo,
                   mnResults, mnAttempts, mnConstructed, mnWrites>>
    /\ UNCHANGED OtherVars

\* the summary the other drivers print: run_complete_tests divides by
\* len(results)
MainSummary ==
    /\ mnPc = "summary"
    /\ IF mnDriver = "run_complete_tests" /\ DOMAIN mnResults = {}
       THEN mnPc' = "raised" /\ mnExit' = PyInt(1)
       ELSE mnPc' = "exited" /\ mnExit' = PyInt(0)
    /\ UNCHANGED <<mnDriver, mnArgs, mnGroundTruth, mnFound, mnDocs, mnIndex, mnTodo,
                   mnResults, mnAttempts, mnConstructed, mnWrites, mnEvaluation>>
    /\ UNCHANGED OtherVars

NextMain ==
    \/ MainConfig \/ MainDiscover \/ MainBeginDocument \/ MainAttempt
    \/ MainSave \/ MainEvaluate \/ MainSummary

SpecMain == InitMain /\ [][NextMain]_vars

\* the interpreter runs main's statements one after the other, and every call
\* of an extractor returns or raises
SpecMainFair == SpecMain /\ WF_vars(NextMain)

----------------------------------------------------------------------------
(* Properties of the batch drivers, under SpecMain and SpecMainFair *)

MnIs10k == mnDriver = "extract_10k_data"

MnStrategies == {Strategies(mnDriver, mnArgs.mode)[i] :
                    i \in DOMAIN Strategies(mnDriver, mnArgs.mode)}

\* the attempts made for document d with strategy s
MnAttemptsOf(d, s) ==
    {i \in DOMAIN mnAttempts : mnAttempts[i].doc = d /\ mnAttempts[i].strategy = s}

\* the loop is done with document d
MnFinished(d) == d < mnIndex \/ (d = mnIndex /\ mnTodo = <<>>)

\* the loop is over
MnLoopOver == mnWrites > 0 \/ mnPc \in {"evaluate", "summary"}

\* C18: an exception of one attempt does not end the run: its entry is
\* {'error': message}, the document's other strategies and the later documents
\* are still attempted, and no (document, strategy) is attempted twice.
C18_FailureIsRecorded ==
    mnPc # "idle" =>
        /\ \A d \in 1..Len(mnDocs) : \A s \in MnStrategies :
              /\ Cardinality(MnAttemptsOf(d, s)) <= 1
              /\ MnFinished(d) => Cardinality(MnAttemptsOf(d, s)) = 1
        /\ \A i \in DOMAIN mnAttempts :
              /\ mnAttempts[i].doc \in 1..mnIndex
              /\ mnAttempts[i].strategy \in MnStrategies
              /\ mnAttempts[i].raised /\ mnAttempts[i].doc = mnIndex =>
                    mnResults[TickerOf(mnDriver, mnDocs[mnIndex])][mnAttempts[i].strategy]
                        = [error |-> mnAttempts[i].exc]
        /\ MnLoopOver => mnIndex = Len(mnDocs) /\ mnTodo = <<>>
        /\ mnPc = "raised" => mnAttempts = <<>> \/ MnLoopOver

C18_Witness ==
    /\ mnDriver = "run_complete_tests"
    /\ Len(mnAttempts) = 4
    /\ mnAttempts[1].raised /\ ~mnAttempts[2].raised
    /\ mnAttempts[3].raised /\ mnAttempts[4].raised
    /\ mnWrites = 1

\* C19: extract_10k_data.main writes the results JSON at most once, only when
\* every document has had all its attempts, and before the evaluation; and
\* once the loop has started the write eventually happens, whatever fails.
C19_ResultsWrittenOnce ==
    /\ [](MnIs10k =>
            /\ mnWrites <= 1
            /\ mnWrites = 1 =>
                  \A d \in 1..Len(mnDocs) : \A s \in MnStrategies :
                      Cardinality(MnAttemptsOf(d, s)) = 1
            /\ mnPc = "evaluate" => mnWrites = 1
            /\ mnPc \in {"exited", "raised"} /\ mnAttempts # <<>> => mnWrites = 1)
    /\ (MnIs10k /\ mnPc = "loop") ~> (mnWrites = 1)

C19_Witness ==
    /\ MnIs10k
    /\ mnWrites = 1
    /\ Len(mnAttempts) = 4
    /\ \A i \in DOMAIN mnAttempts : mnAttempts[i].raised
    /\ mnPc = "evaluate"

\* the configuration that main refuses
MnBadConfig ==
    \/ ~mnArgs.use_ollama /\ ~mnArgs.openai_key
    \/ mnArgs.use_ollama /\ ~mnArgs.ollama_available

\* the documents to process: with ground-truth tickers, the files whose first
\* stem token is one of them, case apart; else all the files
MnToProcess ==
    LET tickers == IF mnGroundTruth = None THEN {}
                   ELSE {UpperStr(Strip(c)) : c \in mnGroundTruth.v}
    IN {i \in DOMAIN mnFound :
            tickers # {} => UpperStr(SplitFirst(mnFound[i].name, "_")) \in tickers}

\* C20: with a backend that lacks its key or its package, or with no document
\* to process, extract_10k_data.main constructs no extractor, attempts no
\* document and writes nothing, and it ends only by exit status 1.
C20_ExitsBeforeWork ==
    MnIs10k /\ (MnBadConfig \/ MnToProcess = {}) =>
        /\ mnConstructed = 0
        /\ mnAttempts = <<>>
        /\ mnResults = <<>>
        /\ mnWrites = 0
        /\ mnPc \in {"config", "discover", "exited"}
        /\ mnPc = "exited" => mnExit = PyInt(1)

C20_Witness ==
    /\ MnIs10k
    /\ ~MnBadConfig
    /\ mnFound # <<>> /\ MnToProcess = {}
    /\ mnPc = "exited" /\ mnExit = PyInt(1)

----------------------------------------------------------------------------
(* The match flag and the error classification of a numeric metric, under
   SpecEval *)

\* C28: for every numeric metric that evaluate compared, whatever tolerance the
\* caller passed, match is True if and only if error_type is
\* 'None (within tolerance)'.
C28_MatchAgreesWithClass ==
    EvScored =>
        \A m \in NumericMetrics :
            EvBothPresent(m) =>
                (EvEntry(m).match = Bool(TRUE)
                    <=> EvEntry(m).error_type = Str("None (within tolerance)"))

----------------------------------------------------------------------------
(* The round trips *)

\* what the model's answer carries for a cik, a number and a year before the
\* validators
RawCiks ==
    {None, PyInt(320193), PyInt(-5), Fin(-25, 1), Str(CikDashed), Str(CikLong),
     Str(<<"N", "/", "A">>), Str(<<" ", "x", "-", "1", " ">>)}
RawNumbers == {None, Fin(15, 1), PyInt(-100), Str(<<"(", "1", ",", "0", "0", "0", ")">>),
               NaN, Inf(TRUE)}
RawYears == {None, PyInt(2023), Str(<<"2", "0", "2", "3">>)}

\* the records an extractor can return: the fields after their validators,
\* the ticker the caller's
RoundRecords ==
    {SetTicker(Construct([company_ticker |-> Str(ZZZZ), fiscal_year |-> fy, cik |-> c,
                          total_revenue |-> r, net_income |-> None]).value, AAPL) :
        fy \in RawYears, c \in RawCiks, r \in RawNumbers}

InitRound ==
    /\ rtRecord \in RoundRecords
    /\ rtPc = "returned"
    /\ rtDump = Pending
    /\ rtFile = Pending
    /\ rtRebuilt = Pending
    /\ evExtracted = None
    /\ evGroundTruth = None
    /\ evTolerance = None
    /\ evResult = Pending
    /\ vnInput = None
    /\ vnResult = Pending
    /\ ctText = None
    /\ ctChunkSize = None
    /\ ctResult = Pending
    /\ htDoc = None
    /\ htTextParts = None
    /\ htResult = Pending
    /\ exCls = None
    /\ exParser = None
    /\ exTicker = None
    /\ exPc = "idle"
    /\ exQueries = 0
    /\ exResponse = Pending
    /\ exResult = Pending
    /\ mnDriver = None
    /\ mnArgs = None
    /\ mnGroundTruth = None
    /\ mnFound = <<>>
    /\ mnPc = "idle"
    /\ mnDocs = <<>>
    /\ mnIndex = 0
    /\ mnTodo = <<>>
    /\ mnResults = <<>>
    /\ mnAttempts = <<>>
    /\ mnConstructed = 0
    /\ mnWrites = 0
    /\ mnExit = None
    /\ mnEvaluation = <<>>
    /\ fsDocuments = None
    /\ fsFiltered = Pending
    /\ fsIndexed = Pending
    /\ cmPc = "idle"
    /\ cmIndex = 0
    /\ cmElapsed = 0
    /\ cmRuns = <<>>
    /\ cmResults = <<>>
    /\ cmCompared = None
    /\ dlPc = "idle"
    /\ dlTickerIndex = 0
    /\ dlPdfsCreated = 0
    /\ dlFilingDirs = 0
    /\ dlAttempts = <<>>
    /\ ftPc = "idle"
    /\ ftExists = FALSE
    /\ ftCsv = <<>>
    /\ ftFrame = <<>>
    /\ ftIndex = 0
    /\ ftUpdated = 0
    /\ ftWritten = {}
    /\ ftSaved = Pending

\* result.model_dump()
RoundDump ==
    /\ rtPc = "returned"
    /\ rtDump' = ModelDump(rtRecord)
    /\ rtPc' = "dumped"
    /\ UNCHANGED <<rtRecord, rtFile, rtRebuilt>>
    /\ UNCHANGED <<evalVars, normVars, chunkVars, htmlVars, extractVars, mainVars, filterVars, compareVars, downloadVars, featureVars>>

\* json.dump(results, f): the text of each field of the record
RoundSave ==
    /\ rtPc = "dumped"
    /\ rtFile' = [k \in DOMAIN rtDump.v |-> JsonDumpValue(rtDump.v[k])]
    /\ rtPc' = "saved"
    /\ UNCHANGED <<rtRecord, rtDump, rtRebuilt>>
    /\ UNCHANGED <<evalVars, normVars, chunkVars, htmlVars, extractVars, mainVars, filterVars, compareVars, downloadVars, featureVars>>

\* json.load(f) of the output file
RoundLoad ==
    /\ rtPc = "saved"
    /\ rtDump' = Dict([k \in DOMAIN rtFile |-> JsonLoadValue(rtFile[k])])
    /\ rtPc' = "loaded"
    /\ UNCHANGED <<rtRecord, rtFile, rtRebuilt>>
    /\ UNCHANGED <<evalVars, normVars, chunkVars, htmlVars, extractVars, mainVars, filterVars, compareVars, downloadVars, featureVars>>

\* the record rebuilt from the dump main holds, or from the dump read back
RoundRebuild ==
    /\ rtPc \in {"dumped", "loaded"}
    /\ rtRebuilt' = ConstructFrom(rtDump)
    /\ rtPc' = "rebuilt"
    /\ UNCHANGED <<rtRecord, rtDump, rtFile>>
    /\ UNCHANGED <<evalVars, normVars, chunkVars, htmlVars, extractVars, mainVars, filterVars, compareVars, downloadVars, featureVars>>

NextRound == RoundDump \/ RoundSave \/ RoundLoad \/ RoundRebuild

SpecRound == InitRound /\ [][NextRound]_vars

----------------------------------------------------------------------------
(* Properties of the round trip, under SpecRound *)

RtRebuilt == rtPc = "rebuilt"

\* C21: the record rebuilt from the dump of a record an extractor returned,
\* in memory or through the output JSON, has the same company_ticker,
\* fiscal_year, cik, total_revenue and net_income as that record, a field that
\* was None still None.
C21_RoundTrip ==
    RtRebuilt =>
        /\ rtRebuilt.t = "returned"
        /\ \A k \in FieldNames : rtRebuilt.value[k] = rtRecord[k]

\* the round trip of a record whose cik has no minus sign
C21_UnsignedCikRoundTrip ==
    (RtRebuilt /\ (rtRecord.cik = None \/ Positions(rtRecord.cik.v, "-") = {})) =>
        /\ rtRebuilt.t = "returned"
        /\ \A k \in FieldNames : rtRebuilt.value[k] = rtRecord[k]

----------------------------------------------------------------------------
(* The documents extract_10k_data.main processes, and their keys, under
   SpecMain *)

\* the key of the i-th file found: the first '_'-separated token of its stem
MnKey(i) == SplitFirst(mnFound[i].name, "_")

\* the loop has taken the i-th file found
MnProcessed(i) == \E d \in 1..mnIndex : mnDocs[d] = mnFound[i]

\* the tickers the ground-truth file lists, case apart
MnListedTickers ==
    IF mnGroundTruth = None THEN {} ELSE {UpperStr(Strip(c)) : c \in mnGroundTruth.v}

\* C22: when the ground-truth file lists a ticker, a file is processed only if
\* the first token of its stem is, case apart, a listed ticker, and a file
\* whose token is not listed has no entry in results; without a ground-truth
\* file every file found is processed.
C22_OnlyListedProcessed ==
    MnIs10k =>
        /\ MnListedTickers # {} =>
              \A i \in DOMAIN mnFound :
                  /\ MnProcessed(i) => UpperStr(MnKey(i)) \in MnListedTickers
                  /\ UpperStr(MnKey(i)) \notin MnListedTickers =>
                        MnKey(i) \notin DOMAIN mnResults
        /\ (mnGroundTruth = None /\ MnLoopOver) =>
              \A i \in DOMAIN mnFound : MnProcessed(i)

C22_Witness ==
    /\ MnIs10k
    /\ mnGroundTruth # None /\ mnGroundTruth.v = {AAPL}
    /\ Len(mnFound) = 2 /\ MnKey(1) = <<"m", "s", "f", "t">> /\ MnKey(2) = AAPL
    /\ mnWrites = 1
    /\ DOMAIN mnResults = {AAPL}

\* C25: results holds one entry for each document the loop has taken: no
\* entry is replaced or lost because a later document has the same key.
C25_OneEntryPerDocument ==
    MnIs10k => Cardinality(DOMAIN mnResults) = mnIndex

\* the evaluation has been made
MnEvaluated == mnPc = "exited" /\ mnEvaluation # <<>>

\* C26: with --evaluate, a document that passed the ticker filter and whose
\* extraction did not fail is evaluated against its row: its evaluation record
\* is never the 'not found in ground truth' error.
C26_FilteredIsEvaluated ==
    (MnIs10k /\ MnListedTickers # {} /\ MnEvaluated) =>
        \A ticker \in DOMAIN mnEvaluation : \A s \in DOMAIN mnEvaluation[ticker] :
            "error" \notin DOMAIN mnEvaluation[ticker][s]


\* C27: in run_complete_tests.main, the record of an extraction that succeeded
\* and was stored under results[key][strategy] is still there when the loop is
\* over, whatever the evaluation that follows it did.
C27_StoredRecordKept ==
    (mnDriver = "run_complete_tests" /\ MnLoopOver) =>
        \A i \in DOMAIN mnAttempts :
            ~mnAttempts[i].raised =>
                LET key == TickerOf(mnDriver, mnDocs[mnAttempts[i].doc])
                IN mnResults[key][mnAttempts[i].strategy] = Extracted(key)

----------------------------------------------------------------------------
(* RefinedExtractor._filter_relevant_sections and the documents indexed *)

\* relevant_keywords
RelevantKeywords ==
    <<<<"i", "t", "e", "m", " ", "7">>,
      <<"i", "t", "e", "m", " ", "8">>,
      <<"f", "i", "n", "a", "n", "c", "i", "a", "l", " ", "s", "t", "a", "t", "e", "m", "e", "n", "t", "s">>,
      <<"c", "o", "n", "s", "o", "l", "i", "d", "a", "t", "e", "d", " ", "s", "t", "a", "t", "e", "m", "e", "n", "t", "s">>,
      <<"s", "e", "g", "m", "e", "n", "t", " ", "i", "n", "f", "o", "r", "m", "a", "t", "i", "o", "n">>,
      <<"b", "a", "l", "a", "n", "c", "e", " ", "s", "h", "e", "e", "t">>,
      <<"i", "n", "c", "o", "m", "e", " ", "s", "t", "a", "t", "e", "m", "e", "n", "t">>,
      <<"c", "a", "s", "h", " ", "f", "l", "o", "w">>>>

\* keyword in text
Contains(text, keyword) ==
    \E i \in 1..(Len(text) - Len(keyword) + 1) :
        SubSeq(text, i, i + Len(keyword) - 1) = keyword

\* any(keyword in text_lower for keyword in relevant_keywords)
IsRelevant(text) ==
    \E k \in DOMAIN RelevantKeywords : Contains(LowerStr(text), RelevantKeywords[k])

\* RefinedExtractor._filter_relevant_sections(documents)
FilterRelevantSections(documents) == SelectSeq(documents, IsRelevant)

\* the documents indexed, without the fallback
IndexInputNoFallback(documents, filtered_docs) == filtered_docs

\* the documents indexed: all of them when the filter kept none
IndexInput(documents, filtered_docs) ==
    IF filtered_docs = <<>> THEN documents ELSE filtered_docs

----------------------------------------------------------------------------
(* The runs of the pre-filter *)

MaxParsed == 3

\* the texts of the parsed documents
ParsedTexts ==
    {<<>>,
     <<"I", "t", "e", "m", " ", "7">>,
     <<"I", "T", "E", "M", " ", "8">>,
     <<"i", "t", "e", "m", "7">>,
     <<"C", "a", "s", "h", " ", "F", "l", "o", "w", "s">>,
     <<"a", " ", "c", "a", "s", "h", " ", " ", "f", "l", "o", "w">>,
     <<"I", "n", " ", "B", "a", "l", "a", "n", "c", "e", " ", "S", "h", "e", "e", "t", ".">>}

InitFilter ==
    /\ fsDocuments \in UNION {[1..n -> ParsedTexts] : n \in 0..MaxParsed}
    /\ fsFiltered = Pending
    /\ fsIndexed = Pending
    /\ evExtracted = None
    /\ evGroundTruth = None
    /\ evTolerance = None
    /\ evResult = Pending
    /\ vnInput = None
    /\ vnResult = Pending
    /\ ctText = None
    /\ ctChunkSize = None
    /\ ctResult = Pending
    /\ htDoc = None
    /\ htTextParts = None
    /\ htResult = Pending
    /\ exCls = None
    /\ exParser = None
    /\ exTicker = None
    /\ exPc = "idle"
    /\ exQueries = 0
    /\ exResponse = Pending
    /\ exResult = Pending
    /\ mnDriver = None
    /\ mnArgs = None
    /\ mnGroundTruth = None
    /\ mnFound = <<>>
    /\ mnPc = "idle"
    /\ mnDocs = <<>>
    /\ mnIndex = 0
    /\ mnTodo = <<>>
    /\ mnResults = <<>>
    /\ mnAttempts = <<>>
    /\ mnConstructed = 0
    /\ mnWrites = 0
    /\ mnExit = None
    /\ mnEvaluation = <<>>
    /\ rtRecord = None
    /\ rtPc = "idle"
    /\ rtDump = Pending
    /\ rtFile = Pending
    /\ rtRebuilt = Pending
    /\ cmPc = "idle"
    /\ cmIndex = 0
    /\ cmElapsed = 0
    /\ cmRuns = <<>>
    /\ cmResults = <<>>
    /\ cmCompared = None
    /\ dlPc = "idle"
    /\ dlTickerIndex = 0
    /\ dlPdfsCreated = 0
    /\ dlFilingDirs = 0
    /\ dlAttempts = <<>>
    /\ ftPc = "idle"
    /\ ftExists = FALSE
    /\ ftCsv = <<>>
    /\ ftFrame = <<>>
    /\ ftIndex = 0
    /\ ftUpdated = 0
    /\ ftWritten = {}
    /\ ftSaved = Pending

\* filtered_docs = self._filter_relevant_sections(documents)
FilterRelevantSectionsCall ==
    /\ fsFiltered = Pending
    /\ fsFiltered' = Returned(FilterRelevantSections(fsDocuments))
    /\ UNCHANGED <<fsDocuments, fsIndexed>>
    /\ UNCHANGED <<evalVars, normVars, chunkVars, htmlVars, extractVars, mainVars, roundVars, compareVars, downloadVars, featureVars>>

\* the fallback, and VectorStoreIndex.from_documents(filtered_docs)
IndexDocuments ==
    /\ fsFiltered # Pending /\ fsIndexed = Pending
    /\ fsIndexed' = Returned(IndexInput(fsDocuments, fsFiltered.value))
    /\ UNCHANGED <<fsDocuments, fsFiltered>>
    /\ UNCHANGED <<evalVars, normVars, chunkVars, htmlVars, extractVars, mainVars, roundVars, compareVars, downloadVars, featureVars>>

NextFilter == FilterRelevantSectionsCall \/ IndexDocuments

SpecFilter == InitFilter /\ [][NextFilter]_vars

----------------------------------------------------------------------------
(* Properties of the pre-filter, under SpecFilter *)

FsIndexed == fsIndexed # Pending

FsInput == fsIndexed.value

\* the section keywords, as the specification of the filter names them
FsKeywords == {RelevantKeywords[k] : k \in DOMAIN RelevantKeywords}

\* the i-th parsed document has a keyword in its lower-cased text
FsHasKeyword(i) ==
    \E k \in FsKeywords : \E a, b \in 0..Len(fsDocuments[i]) :
        SubSeq(LowerStr(fsDocuments[i]), a + 1, b) = k

FsKept == {i \in DOMAIN fsDocuments : FsHasKeyword(i)}

\* the p-th of a set of positions, in increasing order
FsNth(S, p) == CHOOSE i \in S : Cardinality({j \in S : j < i}) = p - 1

\* C24: the documents indexed are exactly the parsed documents whose
\* lower-cased text contains a section keyword, in their original order; when
\* no document contains one, all parsed documents are indexed; the index input
\* is empty only when the parser returned no document.
C24_IndexedAreRelevant ==
    FsIndexed =>
        /\ FsKept # {} =>
              /\ Len(FsInput) = Cardinality(FsKept)
              /\ \A p \in DOMAIN FsInput : FsInput[p] = fsDocuments[FsNth(FsKept, p)]
        /\ FsKept = {} => FsInput = fsDocuments
        /\ FsInput = <<>> => fsDocuments = <<>>

C24_Witness ==
    /\ FsIndexed
    /\ Len(fsDocuments) = 3 /\ FsKept = {1, 3}
    /\ fsDocuments[1] # fsDocuments[3]
    /\ FsInput = <<fsDocuments[1], fsDocuments[3]>>

----------------------------------------------------------------------------
(* compare_models: run_extraction and main *)

\* subprocess.run(cmd, timeout=3600)
TimeoutSeconds == 3600

\* models_to_test: the names of the models
ModelsToTest == <<"gpt-oss:20b", "deepseek-coder-v2">>

\* the wait of subprocess.run that never gives up
TimedOutNever(elapsed) == FALSE

\* subprocess.run gives up: the child is killed and TimeoutExpired raised
TimedOut(elapsed) == elapsed >= TimeoutSeconds

\* what run_extraction returns: True only for a child that ended with
\* return code 0; False for another code, TimeoutExpired or any exception
RunExtraction(met) == met = "returncode 0"

\* main compares when at least two extractions succeeded
Compares(results) == Len(results) >= 2

----------------------------------------------------------------------------
(* The runs of compare_models *)

\* the clock is observed MaxTicks times within the timeout
MaxTicks == 3

TickSeconds == TimeoutSeconds \div MaxTicks

\* how a child that ends by itself ends, and what subprocess.run can raise
\* besides TimeoutExpired
ChildEnds == {"returncode 0", "returncode 1", "OSError"}

InitCompare ==
    /\ cmPc = "loop"
    /\ cmIndex = 0
    /\ cmElapsed = 0
    /\ cmRuns = <<>>
    /\ cmResults = <<>>
    /\ cmCompared = None
    /\ evExtracted = None
    /\ evGroundTruth = None
    /\ evTolerance = None
    /\ evResult = Pending
    /\ vnInput = None
    /\ vnResult = Pending
    /\ ctText = None
    /\ ctChunkSize = None
    /\ ctResult = Pending
    /\ htDoc = None
    /\ htTextParts = None
    /\ htResult = Pending
    /\ exCls = None
    /\ exParser = None
    /\ exTicker = None
    /\ exPc = "idle"
    /\ exQueries = 0
    /\ exResponse = Pending
    /\ exResult = Pending
    /\ mnDriver = None
    /\ mnArgs = None
    /\ mnGroundTruth = None
    /\ mnFound = <<>>
    /\ mnPc = "idle"
    /\ mnDocs = <<>>
    /\ mnIndex = 0
    /\ mnTodo = <<>>
    /\ mnResults = <<>>
    /\ mnAttempts = <<>>
    /\ mnConstructed = 0
    /\ mnWrites = 0
    /\ mnExit = None
    /\ mnEvaluation = <<>>
    /\ rtRecord = None
    /\ rtPc = "idle"
    /\ rtDump = Pending
    /\ rtFile = Pending
    /\ rtRebuilt = Pending
    /\ fsDocuments = None
    /\ fsFiltered = Pending
    /\ fsIndexed = Pending
    /\ dlPc = "idle"
    /\ dlTickerIndex = 0
    /\ dlPdfsCreated = 0
    /\ dlFilingDirs = 0
    /\ dlAttempts = <<>>
    /\ ftPc = "idle"
    /\ ftExists = FALSE
    /\ ftCsv = <<>>
    /\ ftFrame = <<>>
    /\ ftIndex = 0
    /\ ftUpdated = 0
    /\ ftWritten = {}
    /\ ftSaved = Pending

CompareOthers ==
    <<evalVars, normVars, chunkVars, htmlVars, extractVars, mainVars, roundVars, filterVars,
      downloadVars,
      featureVars>>

\* the loop takes the next model: run_extraction starts the child
CompareStart ==
    /\ cmPc = "loop" /\ cmIndex < Len(ModelsToTest)
    /\ cmIndex' = cmIndex + 1
    /\ cmElapsed' = 0
    /\ cmPc' = "running"
    /\ UNCHANGED <<cmRuns, cmResults, cmCompared>>
    /\ UNCHANGED CompareOthers

\* time passes while the child runs
CompareTick ==
    /\ cmPc = "running" /\ ~TimedOut(cmElapsed) /\ cmElapsed < TimeoutSeconds
    /\ cmElapsed' = cmElapsed + TickSeconds
    /\ UNCHANGED <<cmPc, cmIndex, cmRuns, cmResults, cmCompared>>
    /\ UNCHANGED CompareOthers

\* run_extraction returns: the child ended by itself (or subprocess.run raised)
\* before the timeout, or the timeout expired; main records a success
CompareReturn ==
    /\ cmPc = "running"
    /\ \E met \in IF TimedOut(cmElapsed) THEN {"TimeoutExpired"} ELSE ChildEnds :
          /\ cmRuns' = Append(cmRuns, [model |-> ModelsToTest[cmIndex], met |-> met,
                                       elapsed |-> cmElapsed])
          /\ cmResults' = IF RunExtraction(met)
                          THEN Append(cmResults, ModelsToTest[cmIndex])
                          ELSE cmResults
    /\ cmPc' = "loop"
    /\ UNCHANGED <<cmIndex, cmElapsed, cmCompared>>
    /\ UNCHANGED CompareOthers

\* after the loop: compare_results on the first two successes, or the warning
CompareResults ==
    /\ cmPc = "loop" /\ cmIndex = Len(ModelsToTest)
    /\ cmCompared' = IF Compares(cmResults)
                     THEN Returned(<<cmResults[1], cmResults[2]>>) ELSE None
    /\ cmPc' = "done"
    /\ UNCHANGED <<cmIndex, cmElapsed, cmRuns, cmResults>>
    /\ UNCHANGED CompareOthers

NextCompare == CompareStart \/ CompareTick \/ CompareReturn \/ CompareResults

SpecCompare == InitCompare /\ [][NextCompare]_vars

\* main's statements run one after the other and the clock advances; a child
\* is not bound to end by itself, but subprocess.run returns or raises once
\* the timeout has expired
SpecCompareFair ==
    /\ SpecCompare
    /\ WF_vars(CompareStart) /\ WF_vars(CompareTick) /\ WF_vars(CompareResults)
    /\ WF_vars(CompareReturn /\ TimedOut(cmElapsed))

----------------------------------------------------------------------------
(* Properties of compare_models, under SpecCompareFair *)

\* the runs that met something
CmRunsThat(met) == {i \in DOMAIN cmRuns : cmRuns[i].met = met}

CmSucceeded == {cmResults[i] : i \in DOMAIN cmResults}

\* C23: an extraction that reaches the timeout is ended and marked failed, the
\* remaining models are still attempted (each once) and the run comes to its
\* end; and a comparison is made only of two extractions that ended with
\* return code 0, never of one that timed out or failed.
C23_TimeoutFailsAndContinues ==
    /\ [](/\ \A i \in DOMAIN cmRuns :
                /\ cmRuns[i].model = ModelsToTest[i]
                /\ cmRuns[i].elapsed <= TimeoutSeconds
                /\ cmRuns[i].met # "returncode 0" => cmRuns[i].model \notin CmSucceeded
          /\ cmCompared # None =>
                \A k \in 1..2 : \E i \in CmRunsThat("returncode 0") :
                    cmRuns[i].model = cmCompared.value[k]
          /\ cmPc = "done" => Len(cmRuns) = Len(ModelsToTest))
    /\ (cmPc = "running") ~> (cmPc = "done")

C23_Witness ==
    /\ cmPc = "done"
    /\ cmRuns[1].met = "TimeoutExpired"
    /\ cmRuns[2].met = "returncode 0"
    /\ cmResults = <<ModelsToTest[2]>>
    /\ cmCompared = None

----------------------------------------------------------------------------
(* download_10k_pdfs.main: the download loop *)

COMPANY_TICKERS == <<"AAPL", "MSFT", "GOOGL", "AMZN", "TSLA", "META", "NVDA", "JPM", "V", "JNJ">>

NUM_PDFS_TO_GET == 10

\* the condition of the while loop
LoopContinues(pdfs_created, ticker_index) ==
    pdfs_created < NUM_PDFS_TO_GET /\ ticker_index < Len(COMPANY_TICKERS)

\* a handler that moves on without counting the ticker
AfterExceptionSame(ticker_index) == ticker_index

\* the except clause: ticker_index += 1, continue
AfterException(ticker_index) == ticker_index + 1

----------------------------------------------------------------------------
(* The runs of the download loop *)

\* the filing directories found for one ticker
MaxFilings == 2

InitDownload ==
    /\ dlPc = "loop"
    /\ dlTickerIndex = 0
    /\ dlPdfsCreated = 0
    /\ dlFilingDirs = 0
    /\ dlAttempts = <<>>
    /\ evExtracted = None
    /\ evGroundTruth = None
    /\ evTolerance = None
    /\ evResult = Pending
    /\ vnInput = None
    /\ vnResult = Pending
    /\ ctText = None
    /\ ctChunkSize = None
    /\ ctResult = Pending
    /\ htDoc = None
    /\ htTextParts = None
    /\ htResult = Pending
    /\ exCls = None
    /\ exParser = None
    /\ exTicker = None
    /\ exPc = "idle"
    /\ exQueries = 0
    /\ exResponse = Pending
    /\ exResult = Pending
    /\ mnDriver = None
    /\ mnArgs = None
    /\ mnGroundTruth = None
    /\ mnFound = <<>>
    /\ mnPc = "idle"
    /\ mnDocs = <<>>
    /\ mnIndex = 0
    /\ mnTodo = <<>>
    /\ mnResults = <<>>
    /\ mnAttempts = <<>>
    /\ mnConstructed = 0
    /\ mnWrites = 0
    /\ mnExit = None
    /\ mnEvaluation = <<>>
    /\ rtRecord = None
    /\ rtPc = "idle"
    /\ rtDump = Pending
    /\ rtFile = Pending
    /\ rtRebuilt = Pending
    /\ fsDocuments = None
    /\ fsFiltered = Pending
    /\ fsIndexed = Pending
    /\ cmPc = "idle"
    /\ cmIndex = 0
    /\ cmElapsed = 0
    /\ cmRuns = <<>>
    /\ cmResults = <<>>
    /\ cmCompared = None
    /\ ftPc = "idle"
    /\ ftExists = FALSE
    /\ ftCsv = <<>>
    /\ ftFrame = <<>>
    /\ ftIndex = 0
    /\ ftUpdated = 0
    /\ ftWritten = {}
    /\ ftSaved = Pending

DownloadOthers ==
    <<evalVars, normVars, chunkVars, htmlVars, extractVars, mainVars, roundVars, filterVars,
      compareVars,
      featureVars>>

\* an iteration starts: dl.get and the lookup of the ticker directory and of
\* its filing directories.  dl.get or a lookup raises, the ticker directory is
\* missing, there is no filing directory, or some are found.  (The guard on
\* the number of calls bounds the runs; the loop as written never reaches it.)
DownloadGet ==
    /\ dlPc = "loop" /\ LoopContinues(dlPdfsCreated, dlTickerIndex)
    /\ Len(dlAttempts) <= Len(COMPANY_TICKERS)
    /\ dlAttempts' = Append(dlAttempts, dlTickerIndex)
    /\ \/ /\ dlTickerIndex' = AfterException(dlTickerIndex)
          /\ UNCHANGED <<dlPc, dlFilingDirs>>
       \/ /\ dlTickerIndex' = dlTickerIndex + 1
          /\ UNCHANGED <<dlPc, dlFilingDirs>>
       \/ /\ dlFilingDirs' \in 1..MaxFilings
          /\ dlPc' = "filing"
          /\ UNCHANGED dlTickerIndex
    /\ UNCHANGED dlPdfsCreated
    /\ UNCHANGED DownloadOthers

\* the for loop looks at the next filing directory: it is no directory or has
\* no primary document (on to the next, or the end of the iteration), the
\* lookup raises, the PDF exists already, or the document is to be converted
DownloadFiling ==
    /\ dlPc = "filing"
    /\ \/ /\ dlFilingDirs' = dlFilingDirs - 1
          /\ IF dlFilingDirs' = 0
             THEN dlPc' = "loop" /\ dlTickerIndex' = dlTickerIndex + 1
             ELSE UNCHANGED <<dlPc, dlTickerIndex>>
          /\ UNCHANGED dlPdfsCreated
       \/ /\ dlTickerIndex' = AfterException(dlTickerIndex)
          /\ dlPc' = "loop" /\ dlFilingDirs' = 0
          /\ UNCHANGED dlPdfsCreated
       \/ /\ dlPdfsCreated' = dlPdfsCreated + 1
          /\ dlPc' = "counted" /\ dlFilingDirs' = 0
          /\ UNCHANGED dlTickerIndex
       \/ /\ dlPc' = "converting"
          /\ UNCHANGED <<dlTickerIndex, dlPdfsCreated, dlFilingDirs>>
    /\ UNCHANGED dlAttempts
    /\ UNCHANGED DownloadOthers

\* convert_html_to_pdf returns True (pdfs_created += 1) or False (it catches
\* what it raises); only this filing is processed
DownloadConvert ==
    /\ dlPc = "converting"
    /\ \/ /\ dlPdfsCreated' = dlPdfsCreated + 1
          /\ dlPc' = "counted"
          /\ UNCHANGED dlTickerIndex
       \/ /\ dlTickerIndex' = dlTickerIndex + 1
          /\ dlPc' = "loop"
          /\ UNCHANGED dlPdfsCreated
    /\ dlFilingDirs' = 0
    /\ UNCHANGED dlAttempts
    /\ UNCHANGED DownloadOthers

\* after the break that follows pdfs_created += 1: ticker_index += 1
DownloadAdvance ==
    /\ dlPc = "counted"
    /\ dlTickerIndex' = dlTickerIndex + 1
    /\ dlPc' = "loop"
    /\ UNCHANGED <<dlPdfsCreated, dlFilingDirs, dlAttempts>>
    /\ UNCHANGED DownloadOthers

\* the condition of the while loop is false: the loop is left
DownloadDone ==
    /\ dlPc = "loop" /\ ~LoopContinues(dlPdfsCreated, dlTickerIndex)
    /\ dlPc' = "done"
    /\ UNCHANGED <<dlTickerIndex, dlPdfsCreated, dlFilingDirs, dlAttempts>>
    /\ UNCHANGED DownloadOthers

NextDownload ==
    \/ DownloadGet \/ DownloadFiling \/ DownloadConvert \/ DownloadAdvance
    \/ DownloadDone

SpecDownload == InitDownload /\ [][NextDownload]_vars

\* the statements of main run one after the other, and each call of the
\* downloader, of the file system and of the converter returns or raises
SpecDownloadFair == SpecDownload /\ WF_vars(NextDownload)

----------------------------------------------------------------------------
(* Properties of the download loop, under SpecDownloadFair *)

\* an iteration is under way
DlInIteration == dlPc \in {"filing", "converting", "counted"}

\* C29, as stated: the download loop ends whatever the download, the lookups
\* and the conversion do: every iteration adds exactly one to ticker_index, no
\* ticker is attempted twice, and at every point
\* pdfs_created <= ticker_index <= len(COMPANY_TICKERS) and
\* pdfs_created <= NUM_PDFS_TO_GET.
C29_CountersAtEveryPoint ==
    /\ [](/\ dlPdfsCreated <= dlTickerIndex
          /\ dlTickerIndex <= Len(COMPANY_TICKERS)
          /\ dlPdfsCreated <= NUM_PDFS_TO_GET
          /\ Len(dlAttempts) = dlTickerIndex + (IF DlInIteration THEN 1 ELSE 0)
          /\ \A i, j \in DOMAIN dlAttempts : i # j => dlAttempts[i] # dlAttempts[j])
    /\ <>(dlPc = "done")

\* C29, amended: the same, with pdfs_created <= ticker_index at every test of
\* the loop condition and after the loop; inside an iteration, between
\* pdfs_created += 1 and ticker_index += 1, pdfs_created is at most
\* ticker_index + 1.
C29_CountersAtLoopTest ==
    /\ [](/\ dlPc \in {"loop", "done"} => dlPdfsCreated <= dlTickerIndex
          /\ dlPdfsCreated <= dlTickerIndex + (IF dlPc = "counted" THEN 1 ELSE 0)
          /\ dlTickerIndex <= Len(COMPANY_TICKERS)
          /\ dlPdfsCreated <= NUM_PDFS_TO_GET
          /\ Len(dlAttempts) = dlTickerIndex + (IF DlInIteration THEN 1 ELSE 0)
          /\ \A i, j \in DOMAIN dlAttempts : i # j => dlAttempts[i] # dlAttempts[j])
    /\ <>(dlPc = "done")

C29_Witness ==
    /\ dlPc = "done"
    /\ dlTickerIndex = Len(COMPANY_TICKERS)
    /\ dlPdfsCreated = NUM_PDFS_TO_GET


-----------------------------------------------------------------------------
(* extract_features_from_html.main: the cells of ground_truth_complete.csv  *)
(* that the run fills in.  A row of the frame is a record of the columns    *)
(* the loop reads; an empty cell of the file is read as NaN.                *)

\* pd.isna(current) or current == ''
CellIsEmpty(current) ==
    IsNa(current) \/ (current.t = "str" /\ current.v = <<>>)

\* the condition under which both metrics are extracted
NeedsMetrics(current_revenue, current_income) ==
    CellIsEmpty(current_revenue) \/ CellIsEmpty(current_income)

\* df.at[idx, column] = value
SetCell(df, idx, column, value) ==
    [df EXCEPT ![idx] = [df[idx] EXCEPT ![column] = value]]

\* the assignments that follow extract_financial_metrics_from_html
SetMetrics(df, idx, total_revenue, net_income) ==
    IF total_revenue # None /\ net_income # None
    THEN SetCell(SetCell(df, idx, "total_revenue", total_revenue),
                 idx, "net_income", net_income)
    ELSE IF total_revenue # None THEN SetCell(df, idx, "total_revenue", total_revenue)
    ELSE IF net_income # None THEN SetCell(df, idx, "net_income", net_income)
    ELSE df

\* the cells these assignments write
MetricsWritten(idx, total_revenue, net_income) ==
    (IF total_revenue # None THEN {<<idx, "total_revenue">>} ELSE {})
        \cup (IF net_income # None THEN {<<idx, "net_income">>} ELSE {})

\* a string is truthy when it is not empty
CikFound(cik) == cik # None /\ cik.v # <<>>

MaxRows == 2

\* the html files on disk
HtmlOnDisk == {<<"a">>}

FeatureColumns == {"cik", "total_revenue", "net_income"}

FeatureRows ==
    [ticker : {NaN, Str(<<" ">>), Str(<<"A", "A", "P", "L">>)},
     html_file : {Str(<<" ">>), Str(<<"a">>), Str(<<"b">>)},
     cik : {NaN, PyInt(320193)},
     total_revenue : {NaN, Fin(1000, 0)},
     net_income : {NaN, Fin(50, 0)}]

\* what extract_cik_from_html returns
CikOutcomes == {None, Str(ZFill(<<"3", "2", "0", "1", "9", "3">>, 10))}

\* what extract_financial_metrics_from_html returns, in each place
RevenueOutcomes == {None, Fin(2000, 0)}
IncomeOutcomes == {None, Fin(70, 0)}

InitFeature ==
    /\ evExtracted = None
    /\ evGroundTruth = None
    /\ evTolerance = None
    /\ evResult = Pending
    /\ vnInput = None
    /\ vnResult = Pending
    /\ ctText = None
    /\ ctChunkSize = None
    /\ ctResult = Pending
    /\ htDoc = None
    /\ htTextParts = None
    /\ htResult = Pending
    /\ exCls = None
    /\ exParser = None
    /\ exTicker = None
    /\ exPc = "idle"
    /\ exQueries = 0
    /\ exResponse = Pending
    /\ exResult = Pending
    /\ mnDriver = None
    /\ mnArgs = None
    /\ mnGroundTruth = None
    /\ mnFound = <<>>
    /\ mnPc = "idle"
    /\ mnDocs = <<>>
    /\ mnIndex = 0
    /\ mnTodo = <<>>
    /\ mnResults = <<>>
    /\ mnAttempts = <<>>
    /\ mnConstructed = 0
    /\ mnWrites = 0
    /\ mnExit = None
    /\ mnEvaluation = <<>>
    /\ rtRecord = None
    /\ rtPc = "idle"
    /\ rtDump = Pending
    /\ rtFile = Pending
    /\ rtRebuilt = Pending
    /\ fsDocuments = None
    /\ fsFiltered = Pending
    /\ fsIndexed = Pending
    /\ cmPc = "idle"
    /\ cmIndex = 0
    /\ cmElapsed = 0
    /\ cmRuns = <<>>
    /\ cmResults = <<>>
    /\ cmCompared = None
    /\ dlPc = "idle"
    /\ dlTickerIndex = 0
    /\ dlPdfsCreated = 0
    /\ dlFilingDirs = 0
    /\ dlAttempts = <<>>
    /\ ftPc = "start"
    /\ ftExists \in BOOLEAN
    /\ ftCsv \in IF ftExists
                 THEN UNION {[1..n -> FeatureRows] : n \in 0..MaxRows}
                 ELSE {<<>>}
    /\ ftFrame = <<>>
    /\ ftIndex = 0
    /\ ftUpdated = 0
    /\ ftWritten = {}
    /\ ftSaved = Pending

FeatureOthers ==
    <<evalVars, normVars, chunkVars, htmlVars, extractVars, mainVars, roundVars, filterVars,
      compareVars, downloadVars>>

\* the file is missing (return) or it is read with pd.read_csv
FeatureRead ==
    /\ ftPc = "start"
    /\ IF ftExists
       THEN /\ ftFrame' = ftCsv
            /\ ftIndex' = 1
            /\ ftPc' = "row"
       ELSE /\ ftPc' = "done"
            /\ UNCHANGED <<ftFrame, ftIndex>>
    /\ UNCHANGED <<ftExists, ftCsv, ftUpdated, ftWritten, ftSaved>>
    /\ UNCHANGED FeatureOthers

\* the head of an iteration: .strip() of a NaN raises (nothing catches it), a
\* blank ticker or html_file and a missing file skip the row
FeatureRow ==
    /\ ftPc = "row" /\ ftIndex <= Len(ftFrame)
    /\ LET row == ftCsv[ftIndex] IN
       IF row.ticker.t # "str" \/ row.html_file.t # "str"
       THEN ftPc' = "raised" /\ UNCHANGED ftIndex
       ELSE IF Strip(row.ticker.v) = <<>> \/ Strip(row.html_file.v) = <<>>
                \/ Strip(row.html_file.v) \notin HtmlOnDisk
       THEN ftIndex' = ftIndex + 1 /\ UNCHANGED ftPc
       ELSE ftPc' = "cik" /\ UNCHANGED ftIndex
    /\ UNCHANGED <<ftExists, ftCsv, ftFrame, ftUpdated, ftWritten, ftSaved>>
    /\ UNCHANGED FeatureOthers

\* the CIK of the row: extracted when the cell is empty, written when found
FeatureCik ==
    /\ ftPc = "cik"
    /\ IF CellIsEmpty(ftCsv[ftIndex].cik)
       THEN \E cik \in CikOutcomes :
              IF CikFound(cik)
              THEN /\ ftFrame' = SetCell(ftFrame, ftIndex, "cik", cik)
                   /\ ftWritten' = ftWritten \cup {<<ftIndex, "cik">>}
                   /\ ftUpdated' = ftUpdated + 1
              ELSE UNCHANGED <<ftFrame, ftWritten, ftUpdated>>
       ELSE UNCHANGED <<ftFrame, ftWritten, ftUpdated>>
    /\ ftPc' = "metrics"
    /\ UNCHANGED <<ftExists, ftCsv, ftIndex, ftSaved>>
    /\ UNCHANGED FeatureOthers

\* the two metrics of the row: both are extracted when either cell is empty,
\* and each one that is not None is written
FeatureMetrics ==
    /\ ftPc = "metrics"
    /\ IF NeedsMetrics(ftCsv[ftIndex].total_revenue, ftCsv[ftIndex].net_income)
       THEN \E total_revenue \in RevenueOutcomes, net_income \in IncomeOutcomes :
              /\ ftFrame' = SetMetrics(ftFrame, ftIndex, total_revenue, net_income)
              /\ ftWritten' = ftWritten
                     \cup MetricsWritten(ftIndex, total_revenue, net_income)
              /\ ftUpdated' = ftUpdated
                     + Cardinality(MetricsWritten(ftIndex, total_revenue, net_income))
       ELSE UNCHANGED <<ftFrame, ftWritten, ftUpdated>>
    /\ ftIndex' = ftIndex + 1
    /\ ftPc' = "row"
    /\ UNCHANGED <<ftExists, ftCsv, ftSaved>>
    /\ UNCHANGED FeatureOthers

\* after the last row: df.to_csv
FeatureSave ==
    /\ ftPc = "row" /\ ftIndex > Len(ftFrame)
    /\ ftSaved' = Returned(ftFrame)
    /\ ftPc' = "done"
    /\ UNCHANGED <<ftExists, ftCsv, ftFrame, ftIndex, ftUpdated, ftWritten>>
    /\ UNCHANGED FeatureOthers

NextFeature ==
    FeatureRead \/ FeatureRow \/ FeatureCik \/ FeatureMetrics \/ FeatureSave

SpecFeature == InitFeature /\ [][NextFeature]_vars

\* the cell of a row and a column held a value before the run
FtFilled(i, column) == ~CellIsEmpty(ftCsv[i][column])

\* C30: a ground-truth cell (cik, total_revenue or net_income) that holds a
\* value before the run holds the same value after it, and only cells that
\* were empty are ever written.
C30_FilledCellsKept ==
    /\ \A c \in ftWritten : ~FtFilled(c[1], c[2])
    /\ ftSaved # Pending =>
         \A i \in DOMAIN ftCsv : \A column \in FeatureColumns :
             FtFilled(i, column) => ftSaved.value[i][column] = ftCsv[i][column]

\* the same for the cik column alone, and for the metrics of a row whose two
\* metric cells are both filled: these are kept
C30_CikAndCompleteRowsKept ==
    ftSaved # Pending =>
      \A i \in DOMAIN ftCsv :
        /\ FtFilled(i, "cik") => ftSaved.value[i].cik = ftCsv[i].cik
        /\ FtFilled(i, "total_revenue") /\ FtFilled(i, "net_income")
             => /\ ftSaved.value[i].total_revenue = ftCsv[i].total_revenue
                /\ ftSaved.value[i].net_income = ftCsv[i].net_income

\* a saved run that filled an empty cell next to filled ones
C30_Witness ==
    /\ ftSaved # Pending
    /\ \E i \in DOMAIN ftCsv :
         /\ FtFilled(i, "cik") /\ FtFilled(i, "total_revenue")
         /\ ~FtFilled(i, "net_income")
         /\ <<i, "net_income">> \in ftWritten

============================================================================
